---- MODULE Spec2Model ----
(***************************************************************************)
(* GateKeeper data-plane transport: the resiliency components (circuit     *)
(* breaker, bulkhead, token-bucket rate limiter, retry policy) and the     *)
(* decorators that chain them around the base HTTP client.                 *)
(*                                                                         *)
(* Time is a discrete clock `now` (ticks).  Every critical section that    *)
(* the code runs under a mutex is one atomic step; the steps of a call     *)
(* that the code does not serialise are separate steps that interleave.    *)
(***************************************************************************)
EXTENDS Integers, Sequences, FiniteSets, TLC

VARIABLES
    now,        \* the clock read by time.Now() / time.Since()
    cb,         \* the CircuitBreaker struct
    cbCalls,    \* per caller: position inside CircuitBreaker.Execute
    cbHist,     \* history of the breaker (observation only)
    bh,         \* the Bulkhead struct
    bhCalls,    \* per caller: position inside Bulkhead.Execute
    rl,         \* the RateLimiter struct
    rlCalls,    \* per caller: position inside RateLimiter.Wait
    rlHist,     \* admissions of the rate limiter per tick (observation only)
    policy,     \* the RetryPolicy of the chain's RetryDecorator
    chain,      \* which decorators the chain holds
    send,       \* the one Send running through the chain
    response,   \* a models.Response and the body stream under it
    async,      \* one ExecuteBatch / ExecuteConcurrent / FanOut call
    builder,    \* a RequestBuilder and the calls made on it
    ev          \* the last operation that completed (observation only)

cbVars == <<cb, cbCalls, cbHist>>
bhVars == <<bh, bhCalls>>
rlVars == <<rl, rlCalls, rlHist>>
chainVars == <<policy, chain, send>>
otherVars == <<response, async, builder>>
resiliencyVars == <<now, cbVars, bhVars, rlVars, chainVars>>
vars == <<now, cb, cbCalls, cbHist, bh, bhCalls, rl, rlCalls, rlHist,
          policy, chain, send, response, async, builder, ev>>

----------------------------------------------------------------------------
(* Bounds of the model *)

NumCallers == 2
MaxTime == 4
MaxThreshold == 2
MaxTimeout == 2
NumBhCallers == 3
MaxConcurrencyBound == 2
NumRlCallers == 1
RlMaxTime == 3
MaxRate == 2
MaxBurst == 2
MaxAttemptsBound == 3
MaxChainThreshold == 2
MaxChainTimeout == 3
MaxInitialDelay == 1
MaxDelayBound == 2
MaxLatency == 1
MaxSleepOverrun == 1
MaxMultiplier == 2
MaxStackAttempts == 2
MaxBodyLen == 2
MaxRequests == 2
MaxCap == 2
MaxBodyCalls == 3

\* RequestBuilder: calls in one chain, and the largest timeout (seconds)
MaxBuilderCalls == 3

MaxBuilderTimeout == 1

\* width of time.Duration in the model (64 in the program)
DurationBits == 3

\* resolution of the clock: ticks per second.  Token amounts are kept in
\* units of 1/TicksPerSecond token, so that elapsed * rate is exact.
TicksPerSecond == 2

Callers == 1..NumCallers
BhCallers == 1..NumBhCallers
RlCallers == 1..NumRlCallers

\* the value of a variable that belongs to a component the specification leaves out
Absent == <<>>

----------------------------------------------------------------------------
(* Circuit breaker: resiliency/circuit_breaker.go *)

\* the zero value of time.Time in lastFailureTime / lastSuccessTime
ZeroTime == -1

\* successThreshold set by NewCircuitBreaker
DefaultSuccessThreshold == 2

NewCircuitBreaker(failureThreshold, timeout) ==
    [ state            |-> "Closed",
      failureCount     |-> 0,
      successCount     |-> 0,
      lastFailureTime  |-> ZeroTime,
      lastSuccessTime  |-> ZeroTime,
      failureThreshold |-> failureThreshold,
      successThreshold |-> DefaultSuccessThreshold,
      timeout          |-> timeout ]

\* faulty variant: the timeout counts as passed at exactly cb.timeout
TimeoutPassedInclusive(c, t) ==
    \/ c.lastFailureTime = ZeroTime
    \/ t - c.lastFailureTime >= c.timeout

\* time.Since(cb.lastFailureTime) > cb.timeout ; the zero time is far in the past
TimeoutPassed(c, t) ==
    \/ c.lastFailureTime = ZeroTime
    \/ t - c.lastFailureTime > c.timeout

\* faulty variant: a rejection restarts the open period
canExecuteRejectionRestartsTimeout(c, t) ==
    CASE c.state = "Closed"   -> [cb |-> c, ok |-> TRUE]
      [] c.state = "Open"     ->
            IF TimeoutPassed(c, t)
            THEN [cb |-> [c EXCEPT !.state = "HalfOpen", !.successCount = 0],
                  ok |-> TRUE]
            ELSE [cb |-> [c EXCEPT !.lastFailureTime = t], ok |-> FALSE]
      [] c.state = "HalfOpen" -> [cb |-> c, ok |-> TRUE]
      [] OTHER                -> [cb |-> c, ok |-> FALSE]

\* faulty variant: only the call that moves the breaker to HalfOpen is a probe
canExecuteOneProbe(c, t) ==
    CASE c.state = "Closed"   -> [cb |-> c, ok |-> TRUE]
      [] c.state = "Open"     ->
            IF TimeoutPassed(c, t)
            THEN [cb |-> [c EXCEPT !.state = "HalfOpen", !.successCount = 0],
                  ok |-> TRUE]
            ELSE [cb |-> c, ok |-> FALSE]
      [] c.state = "HalfOpen" -> [cb |-> c, ok |-> FALSE]
      [] OTHER                -> [cb |-> c, ok |-> FALSE]

\* canExecute: the admission check; returns the breaker and the verdict
canExecute(c, t) ==
    CASE c.state = "Closed"   -> [cb |-> c, ok |-> TRUE]
      [] c.state = "Open"     ->
            IF TimeoutPassed(c, t)
            THEN [cb |-> [c EXCEPT !.state = "HalfOpen", !.successCount = 0],
                  ok |-> TRUE]
            ELSE [cb |-> c, ok |-> FALSE]
      [] c.state = "HalfOpen" -> [cb |-> c, ok |-> TRUE]
      [] OTHER                -> [cb |-> c, ok |-> FALSE]

\* faulty variant: the failure count is compared with > instead of >=
onFailureStrict(c, t) ==
    LET c1 == [c EXCEPT !.failureCount = c.failureCount + 1,
                        !.lastFailureTime = t]
    IN  CASE c1.state = "Closed" ->
                IF c1.failureCount > c1.failureThreshold
                THEN [c1 EXCEPT !.state = "Open", !.failureCount = 0]
                ELSE c1
          [] c1.state = "HalfOpen" ->
                [c1 EXCEPT !.state = "Open", !.failureCount = 0, !.successCount = 0]
          [] OTHER -> c1

\* faulty variant: a failure while HalfOpen re-opens without clearing successCount
onFailureKeepSuccesses(c, t) ==
    LET c1 == [c EXCEPT !.failureCount = c.failureCount + 1,
                        !.lastFailureTime = t]
    IN  CASE c1.state = "Closed" ->
                IF c1.failureCount >= c1.failureThreshold
                THEN [c1 EXCEPT !.state = "Open", !.failureCount = 0]
                ELSE c1
          [] c1.state = "HalfOpen" ->
                [c1 EXCEPT !.state = "Open", !.failureCount = 0]
          [] OTHER -> c1

\* onFailure: failureCount++ and lastFailureTime = now in every state, then the switch
onFailure(c, t) ==
    LET c1 == [c EXCEPT !.failureCount = c.failureCount + 1,
                        !.lastFailureTime = t]
    IN  CASE c1.state = "Closed" ->
                IF c1.failureCount >= c1.failureThreshold
                THEN [c1 EXCEPT !.state = "Open", !.failureCount = 0]
                ELSE c1
          [] c1.state = "HalfOpen" ->
                [c1 EXCEPT !.state = "Open", !.failureCount = 0, !.successCount = 0]
          [] OTHER -> c1

\* faulty variant: the half-open success count is compared with > instead of >=
onSuccessStrict(c, t) ==
    LET c1 == [c EXCEPT !.lastSuccessTime = t]
    IN  CASE c1.state = "Closed" -> [c1 EXCEPT !.failureCount = 0]
          [] c1.state = "HalfOpen" ->
                LET c2 == [c1 EXCEPT !.successCount = c1.successCount + 1]
                IN  IF c2.successCount > c2.successThreshold
                    THEN [c2 EXCEPT !.state = "Closed", !.failureCount = 0,
                                    !.successCount = 0]
                    ELSE c2
          [] OTHER -> c1

\* faulty variant: a success recorded while Open closes the breaker
onSuccessClosesOpen(c, t) ==
    LET c1 == [c EXCEPT !.lastSuccessTime = t]
    IN  CASE c1.state = "Closed" -> [c1 EXCEPT !.failureCount = 0]
          [] c1.state = "HalfOpen" ->
                LET c2 == [c1 EXCEPT !.successCount = c1.successCount + 1]
                IN  IF c2.successCount >= c2.successThreshold
                    THEN [c2 EXCEPT !.state = "Closed", !.failureCount = 0,
                                    !.successCount = 0]
                    ELSE c2
          [] OTHER -> [c1 EXCEPT !.state = "Closed", !.failureCount = 0]

\* onSuccess: lastSuccessTime = now, then the switch
onSuccess(c, t) ==
    LET c1 == [c EXCEPT !.lastSuccessTime = t]
    IN  CASE c1.state = "Closed" -> [c1 EXCEPT !.failureCount = 0]
          [] c1.state = "HalfOpen" ->
                LET c2 == [c1 EXCEPT !.successCount = c1.successCount + 1]
                IN  IF c2.successCount >= c2.successThreshold
                    THEN [c2 EXCEPT !.state = "Closed", !.failureCount = 0,
                                    !.successCount = 0]
                    ELSE c2
          [] OTHER -> c1

\* recordResult: err /= nil -> onFailure, else onSuccess (one critical section)
recordResult(c, failed, t) ==
    IF failed THEN onFailure(c, t) ELSE onSuccess(c, t)

\* Reset: back to Closed with both counters cleared
Reset(c) ==
    [c EXCEPT !.state = "Closed", !.failureCount = 0, !.successCount = 0]

\* faulty variant: Trip leaves successCount as it is
TripKeepsSuccessCount(c, t) ==
    [c EXCEPT !.state = "Open", !.lastFailureTime = t, !.failureCount = 0]

\* Trip: to Open, lastFailureTime = now, both counters cleared
Trip(c, t) ==
    [c EXCEPT !.state = "Open", !.lastFailureTime = t,
              !.failureCount = 0, !.successCount = 0]

----------------------------------------------------------------------------
(* Bulkhead: package resiliency, type Bulkhead *)

\* maxConcurrency used by NewBulkhead when the argument is <= 0
DefaultMaxConcurrency == 10

\* semaphore is the number of elements in the buffered channel
NewBulkhead(maxConcurrency) ==
    LET m == IF maxConcurrency <= 0 THEN DefaultMaxConcurrency ELSE maxConcurrency
    IN  [semaphore |-> 0, maxConcurrency |-> m, activeCount |-> 0]

\* faulty variant: the channel holds one element more than maxConcurrency
SelectCasesOffByOne(b, ctxDone) ==
    LET ready == (IF b.semaphore <= b.maxConcurrency THEN {"acquire"} ELSE {})
                 \cup (IF ctxDone THEN {"ctx"} ELSE {})
    IN  IF ready = {} THEN {"default"} ELSE ready

\* faulty variant: the select has no ctx.Done() case
SelectCasesWithoutCtx(b, ctxDone) ==
    IF b.semaphore < b.maxConcurrency THEN {"acquire"} ELSE {"default"}

\* The select of Execute: the cases that can proceed (the send on the
\* semaphore, the receive on ctx.Done()); Go picks any one of them, and the
\* default case only when none can.
SelectCases(b, ctxDone) ==
    LET ready == (IF b.semaphore < b.maxConcurrency THEN {"acquire"} ELSE {})
                 \cup (IF ctxDone THEN {"ctx"} ELSE {})
    IN  IF ready = {} THEN {"default"} ELSE ready

----------------------------------------------------------------------------
(* Rate limiter: package resiliency, type RateLimiter (token bucket) *)

\* one whole token, in the unit tokens are kept in
OneToken == TicksPerSecond

\* NewRateLimiter: the bucket starts full
NewRateLimiter(rate, burst, t) ==
    [rate |-> rate, burst |-> burst, tokens |-> burst * OneToken,
     lastRefillTime |-> t]

\* faulty variant: the refill is not capped at burst
refillNoCap(r, t) ==
    [r EXCEPT !.tokens = r.tokens + (t - r.lastRefillTime) * r.rate,
              !.lastRefillTime = t]

\* faulty variant: the refill forgets to move lastRefillTime
refillKeepsRefillTime(r, t) ==
    LET added == r.tokens + (t - r.lastRefillTime) * r.rate
    IN  [r EXCEPT !.tokens = IF added > r.burst * OneToken
                             THEN r.burst * OneToken ELSE added]

\* refill: tokens += elapsed.Seconds() * rate, capped at burst; lastRefillTime = now
refill(r, t) ==
    LET added == r.tokens + (t - r.lastRefillTime) * r.rate
    IN  [r EXCEPT !.tokens = IF added > r.burst * OneToken
                             THEN r.burst * OneToken ELSE added,
                  !.lastRefillTime = t]

\* faulty variant: admits on any positive amount of tokens
AllowFractional(r, t) ==
    LET r1 == refill(r, t)
    IN  IF r1.tokens > 0
        THEN [rl |-> [r1 EXCEPT !.tokens = IF r1.tokens >= OneToken
                                           THEN r1.tokens - OneToken ELSE 0],
              ok |-> TRUE]
        ELSE [rl |-> r1, ok |-> FALSE]

\* faulty variant: the decrement is lost (decided on a read that is not
\* written back)
AllowLostUpdate(r, t) ==
    LET r1 == refill(r, t)
    IN  IF r1.tokens >= OneToken
        THEN [rl |-> r1, ok |-> TRUE]
        ELSE [rl |-> r1, ok |-> FALSE]

\* Allow: refill, then take one token if tokens >= 1.0 (one critical section)
Allow(r, t) ==
    LET r1 == refill(r, t)
    IN  IF r1.tokens >= OneToken
        THEN [rl |-> [r1 EXCEPT !.tokens = r1.tokens - OneToken], ok |-> TRUE]
        ELSE [rl |-> r1, ok |-> FALSE]

\* calculateWaitTime: refill, then (1.0 - tokens) / rate seconds, truncated by
\* the conversion to time.Duration (here: to whole ticks)
calculateWaitTime(r, t) ==
    LET r1 == refill(r, t)
    IN  [rl   |-> r1,
         wait |-> IF r1.tokens >= OneToken THEN 0
                  ELSE (OneToken - r1.tokens) \div r1.rate]

\* The select of Wait: the cases it can leave by at time t.  A goroutine
\* parked in the select leaves by the case that becomes ready first, so a
\* context done before the timer fired (ctxFirst) leaves the timer case out;
\* with both ready on entry Go picks either.
WaitSelectCases(ctxDone, ctxFirst, wakeAt, t) ==
    (IF ctxDone THEN {"ctx"} ELSE {})
    \cup (IF t >= wakeAt /\ ~(ctxDone /\ ctxFirst) THEN {"timer"} ELSE {})

----------------------------------------------------------------------------
(* Errors and responses: models.HTTPError, HTTPClient.Send *)

\* a nil response; otherwise a response is known by its status code
NilResp == 0

NilErr == [type |-> "nil", StatusCode |-> 0, cause |-> "none", msg |-> ""]

\* &models.HTTPError{StatusCode: status, Err: cause, Message: msg}
HTTPError(status, cause, msg) ==
    [type |-> "HTTPError", StatusCode |-> status, cause |-> cause, msg |-> msg]

\* errors.New(msg): an error that is not a *models.HTTPError
PlainError(msg) == [type |-> "plain", StatusCode |-> 0, cause |-> "none", msg |-> msg]

\* the error of a rejected CircuitBreaker.Execute
CircuitOpenError == PlainError("circuit breaker is open: request rejected")

\* HTTPError.IsTimeout: Err is a net.Error whose Timeout() is true (a network
\* timeout, or context.DeadlineExceeded)
IsTimeout(e) == e.cause \in {"timeout", "deadlineExceeded"}

\* HTTPError.IsTemporary
IsTemporary(e) ==
    IF e.cause = "none"
    THEN e.StatusCode >= 500 /\ e.StatusCode < 600
    ELSE IsTimeout(e) \/ (e.StatusCode >= 500 /\ e.StatusCode < 600)

\* HTTPError.IsClientError
IsClientError(e) == e.StatusCode >= 400 /\ e.StatusCode < 500

\* HTTPError.IsServerError
IsServerError(e) == e.StatusCode >= 500 /\ e.StatusCode < 600

\* What one network attempt can come to: a status code, or http.Client.Do
\* failing with a timeout or with another network error (refused connection)
BaseOutcomes ==
    {[status |-> st, cause |-> "none"] : st \in {200, 404, 429, 500, 501}}
    \cup {[status |-> 0, cause |-> c] : c \in {"timeout", "refused"}}

\* HTTPClient.Send for a well-formed request, given what the network did
HTTPClientSend(o) ==
    IF o.cause /= "none"
    THEN [resp |-> NilResp, err |-> HTTPError(0, o.cause, "request failed")]
    ELSE IF o.status >= 400
    THEN [resp |-> o.status,
          err  |-> HTTPError(o.status, "none", "request returned error status")]
    ELSE [resp |-> o.status, err |-> NilErr]

----------------------------------------------------------------------------
(* Retry policy: resiliency/retry.go *)

\* retryableErrors set by NewRetryPolicy / NewRetryPolicyWithConfig
DefaultRetryableErrors == {408, 429, 500, 502, 503, 504}

\* multiplier set by NewRetryPolicy
DefaultMultiplier == 2

NewRetryPolicyWithConfig(maxAttempts, initialDelay, maxDelay, multiplier) ==
    [maxAttempts     |-> maxAttempts,
     initialDelay    |-> initialDelay,
     maxDelay        |-> maxDelay,
     multiplier      |-> multiplier,
     retryableErrors |-> DefaultRetryableErrors]

\* faulty variant: an error that is not an HTTPError is retried as well
ShouldRetryAnyError(rp, err, attempt) ==
    IF attempt >= rp.maxAttempts THEN FALSE
    ELSE IF err.type = "HTTPError"
    THEN IF IsTimeout(err) \/ IsTemporary(err) THEN TRUE
         ELSE IF err.StatusCode \in rp.retryableErrors THEN TRUE
         ELSE IF IsClientError(err) THEN FALSE
         ELSE IF IsServerError(err) THEN TRUE
         ELSE FALSE
    ELSE TRUE

\* faulty variant: the bulkhead's capacity error is retried
ShouldRetryCapacityError(rp, err, attempt) ==
    IF attempt >= rp.maxAttempts THEN FALSE
    ELSE IF err.type = "HTTPError"
    THEN IF IsTimeout(err) \/ IsTemporary(err) THEN TRUE
         ELSE IF err.StatusCode \in rp.retryableErrors THEN TRUE
         ELSE IF IsClientError(err) THEN FALSE
         ELSE IF IsServerError(err) THEN TRUE
         ELSE FALSE
    ELSE err.msg = "bulkhead: maximum concurrency reached, request rejected"

\* ShouldRetry
ShouldRetry(rp, err, attempt) ==
    IF attempt >= rp.maxAttempts THEN FALSE
    ELSE IF err.type = "HTTPError"
    THEN IF IsTimeout(err) \/ IsTemporary(err) THEN TRUE
         ELSE IF err.StatusCode \in rp.retryableErrors THEN TRUE
         ELSE IF IsClientError(err) THEN FALSE
         ELSE IF IsServerError(err) THEN TRUE
         ELSE FALSE
    ELSE FALSE

RECURSIVE Pow(_, _)
Pow(b, e) == IF e = 0 THEN 1 ELSE b * Pow(b, e - 1)

\* time.Duration is a signed integer of DurationBits bits
MaxDuration == Pow(2, DurationBits - 1) - 1
MinDuration == 0 - Pow(2, DurationBits - 1)

\* time.Duration(x) for a float64 x: the value itself when a Duration can hold
\* it; otherwise the result is implementation-dependent (the most negative
\* Duration on amd64, the nearest Duration on arm64)
ConvertDuration(x) ==
    IF x > MaxDuration THEN {MinDuration, MaxDuration}
    ELSE IF x < MinDuration THEN {MinDuration}
    ELSE {x}

\* GetDelay: 0 for attempt 0, else initialDelay * multiplier^(attempt-1),
\* converted to a Duration and then capped at maxDelay; the set of the
\* values the call can return
GetDelay(rp, attempt) ==
    IF attempt = 0 THEN {0}
    ELSE { IF delayDuration > rp.maxDelay THEN rp.maxDelay ELSE delayDuration :
             delayDuration \in
                ConvertDuration(rp.initialDelay * Pow(rp.multiplier, attempt - 1)) }

\* WithRetryableStatusCodes: the list is replaced
WithRetryableStatusCodes(rp, codes) == [rp EXCEPT !.retryableErrors = codes]

\* AddRetryableStatusCode: the code is appended to the list
AddRetryableStatusCode(rp, code) ==
    [rp EXCEPT !.retryableErrors = rp.retryableErrors \cup {code}]

\* MaxAttempts
MaxAttempts(rp) == rp.maxAttempts

\* faulty variant: the retry loop runs while attempt <= MaxAttempts()
RetryLoopRunsInclusive(rp, attempt) == attempt <= MaxAttempts(rp)

\* RetryDecorator.Send: the loop condition attempt < d.policy.MaxAttempts()
RetryLoopRuns(rp, attempt) == attempt < MaxAttempts(rp)

----------------------------------------------------------------------------
(* Observation of the breaker: what the last operation was and what the    *)
(* history of recorded results has been.  Nothing below feeds back into    *)
(* the breaker.                                                            *)

NoEv == [op |-> "none", pre |-> "none", failed |-> FALSE, ok |-> FALSE, n |-> 0,
         sinceOpen |-> 0]

\* openedAt : the time of the latest transition into Open
\* openedBy : what made that transition ("failure" recorded, or "trip")
\* streak   : failures recorded while Closed since the last success / entry to Closed
\* hoSucc   : successes recorded in the current half-open window
\* probes   : calls admitted in the current half-open window, the one that
\*            started it included
\* fresh    : the calls in flight that were admitted in the current half-open
\*            window
CbHist0 == [openedAt |-> ZeroTime, openedBy |-> "none", streak |-> 0, hoSucc |-> 0,
            probes |-> 0, fresh |-> {}]

\* the calls that are between their admission and their recordResult
InFlight == {p \in DOMAIN cbCalls : cbCalls[p] = "inflight"}

HistAfter(h, pre, post, op, failed, t, p) ==
    [ openedAt |-> IF post.state = "Open" /\ (pre.state /= "Open" \/ op = "trip")
                   THEN t ELSE h.openedAt,
      openedBy |-> IF op = "trip" THEN "trip"
                   ELSE IF post.state = "Open" /\ pre.state /= "Open" THEN "failure"
                   ELSE h.openedBy,
      streak   |-> IF post.state /= "Closed" \/ pre.state /= "Closed" THEN 0
                   ELSE IF op = "record" /\ failed THEN h.streak + 1
                   ELSE IF op = "record" THEN 0
                   ELSE IF op = "reset" THEN 0
                   ELSE h.streak,
      hoSucc   |-> IF post.state /= "HalfOpen" \/ pre.state /= "HalfOpen" THEN 0
                   ELSE IF op = "record" /\ ~failed THEN h.hoSucc + 1
                   ELSE h.hoSucc,
      probes   |-> IF post.state /= "HalfOpen" THEN 0
                   ELSE IF op = "admit" /\ pre.state = "HalfOpen" THEN h.probes + 1
                   ELSE IF op = "admit" THEN 1
                   ELSE h.probes,
      fresh    |-> IF post.state /= "HalfOpen" THEN {}
                   ELSE IF op = "admit"
                     THEN (IF pre.state = "HalfOpen" THEN h.fresh ELSE {}) \cup {p}
                   ELSE IF op = "record" THEN h.fresh \ {p}
                   ELSE h.fresh ]

----------------------------------------------------------------------------
(* The breaker under concurrent callers of Execute, with Reset and Trip *)

Tick ==
    /\ now < MaxTime
    /\ now' = now + 1
    /\ UNCHANGED <<cbVars, bhVars, rlVars, chainVars, ev, otherVars>>

\* Execute, first half: canExecute; a rejected call returns the circuit-open error
CBAdmit(p) ==
    /\ cbCalls[p] = "idle"
    /\ LET r == canExecute(cb, now)
       IN  /\ cb' = r.cb
           /\ cbCalls' = [cbCalls EXCEPT ![p] = IF r.ok THEN "inflight" ELSE "idle"]
           /\ cbHist' = HistAfter(cbHist, cb, r.cb, "admit", FALSE, now, p)
           /\ ev' = [NoEv EXCEPT !.op = "admit", !.pre = cb.state, !.ok = r.ok,
                                 !.sinceOpen = now - cbHist.openedAt]
    /\ UNCHANGED <<now, bhVars, rlVars, chainVars, otherVars>>

\* Execute, second half: fn() has returned, recordResult(err)
CBRecord(p, failed) ==
    /\ cbCalls[p] = "inflight"
    /\ LET c2 == recordResult(cb, failed, now)
       IN  /\ cb' = c2
           /\ cbHist' = HistAfter(cbHist, cb, c2, "record", failed, now, p)
           /\ ev' = [NoEv EXCEPT !.op = "record", !.pre = cb.state,
                                 !.failed = failed,
                                 !.n = IF cb.state = "Closed" /\ failed
                                         THEN cbHist.streak + 1
                                       ELSE IF cb.state = "HalfOpen" /\ ~failed
                                         THEN cbHist.hoSucc + 1
                                       ELSE IF cb.state = "HalfOpen"
                                         THEN cbHist.hoSucc
                                       ELSE 0]
    /\ cbCalls' = [cbCalls EXCEPT ![p] = "idle"]
    /\ UNCHANGED <<now, bhVars, rlVars, chainVars, otherVars>>

CBReset ==
    /\ cb' = Reset(cb)
    /\ cbHist' = HistAfter(cbHist, cb, Reset(cb), "reset", FALSE, now, 0)
    /\ ev' = [NoEv EXCEPT !.op = "reset", !.pre = cb.state]
    /\ UNCHANGED <<now, cbCalls, bhVars, rlVars, chainVars, otherVars>>

CBTrip ==
    /\ cb' = Trip(cb, now)
    /\ cbHist' = HistAfter(cbHist, cb, Trip(cb, now), "trip", FALSE, now, 0)
    /\ ev' = [NoEv EXCEPT !.op = "trip", !.pre = cb.state]
    /\ UNCHANGED <<now, cbCalls, bhVars, rlVars, chainVars, otherVars>>

InitCB ==
    /\ now = 0
    /\ \E ft \in 1..MaxThreshold, to \in 1..MaxTimeout :
          cb = NewCircuitBreaker(ft, to)
    /\ cbCalls = [p \in Callers |-> "idle"]
    /\ cbHist = CbHist0
    /\ bh = Absent /\ bhCalls = Absent
    /\ rl = Absent /\ rlCalls = Absent /\ rlHist = Absent
    /\ policy = Absent /\ chain = Absent /\ send = Absent
    /\ response = Absent /\ async = Absent /\ builder = Absent
    /\ ev = NoEv

NextCB ==
    \/ Tick
    \/ \E p \in Callers : CBAdmit(p)
    \/ \E p \in Callers, failed \in BOOLEAN : CBRecord(p, failed)
    \/ CBReset
    \/ CBTrip

SpecCB == InitCB /\ [][NextCB]_vars

----------------------------------------------------------------------------
(* The bulkhead under concurrent callers of Execute *)

BhIdle == [pc |-> "idle", result |-> "none"]

\* Execute: the select.  "acquire" puts an element in the channel; the other
\* two cases return at once (ctx.Err(), or the capacity error).
BHSelect(p, ctxDone) ==
    /\ bhCalls[p].pc = "idle"
    /\ \E c \in SelectCases(bh, ctxDone) :
          /\ bh' = IF c = "acquire"
                   THEN [bh EXCEPT !.semaphore = bh.semaphore + 1] ELSE bh
          /\ bhCalls' = [bhCalls EXCEPT ![p] =
                            CASE c = "acquire" -> [pc |-> "acquired", result |-> "none"]
                              [] c = "ctx"     -> [pc |-> "idle", result |-> "ctxErr"]
                              [] OTHER         -> [pc |-> "idle", result |-> "capacity"]]
          /\ ev' = [op |-> "bhSelect", caller |-> p, ctxDone |-> ctxDone,
                    full |-> (bh.semaphore >= bh.maxConcurrency), chose |-> c]
    /\ UNCHANGED <<now, cbVars, rlVars, chainVars, otherVars>>

\* atomic.AddInt64(&b.activeCount, 1), then the deferred release is registered
BHIncrement(p) ==
    /\ bhCalls[p].pc = "acquired"
    /\ bh' = [bh EXCEPT !.activeCount = bh.activeCount + 1]
    /\ bhCalls' = [bhCalls EXCEPT ![p].pc = "running"]
    /\ ev' = [op |-> "bhIncrement", caller |-> p]
    /\ UNCHANGED <<now, cbVars, rlVars, chainVars, otherVars>>

\* fn() returns a response, returns an error, or panics
BHFnExit(p, outcome) ==
    /\ bhCalls[p].pc = "running"
    /\ bhCalls' = [bhCalls EXCEPT ![p] = [pc |-> "exiting", result |-> outcome]]
    /\ ev' = [op |-> "bhFnExit", caller |-> p]
    /\ UNCHANGED <<now, cbVars, rlVars, chainVars, bh, otherVars>>

\* faulty variant: the release is not deferred, so a panic of fn skips it
BHReleaseSkippedOnPanic(p) ==
    /\ bhCalls[p].pc = "exiting"
    /\ bh' = IF bhCalls[p].result = "panic" THEN bh
             ELSE [bh EXCEPT !.semaphore = bh.semaphore - 1]
    /\ bhCalls' = [bhCalls EXCEPT ![p].pc = "released"]
    /\ ev' = [op |-> "bhRelease", caller |-> p]
    /\ UNCHANGED <<now, cbVars, rlVars, chainVars, otherVars>>

\* the deferred function, first statement: <-b.semaphore
BHRelease(p) ==
    /\ bhCalls[p].pc = "exiting"
    /\ bh' = [bh EXCEPT !.semaphore = bh.semaphore - 1]
    /\ bhCalls' = [bhCalls EXCEPT ![p].pc = "released"]
    /\ ev' = [op |-> "bhRelease", caller |-> p]
    /\ UNCHANGED <<now, cbVars, rlVars, chainVars, otherVars>>

\* the deferred function, second statement: atomic.AddInt64(&b.activeCount, -1)
BHDecrement(p) ==
    /\ bhCalls[p].pc = "released"
    /\ bh' = [bh EXCEPT !.activeCount = bh.activeCount - 1]
    /\ bhCalls' = [bhCalls EXCEPT ![p].pc = "idle"]
    /\ ev' = [op |-> "bhDecrement", caller |-> p]
    /\ UNCHANGED <<now, cbVars, rlVars, chainVars, otherVars>>

\* ActiveRequests(): atomic load of activeCount
ActiveRequests == bh.activeCount

\* AvailableSlots(): maxConcurrency - ActiveRequests()
AvailableSlots == bh.maxConcurrency - ActiveRequests

\* the callers whose fn is executing
RunningFn == {p \in DOMAIN bhCalls : bhCalls[p].pc = "running"}

InitBH ==
    /\ now = 0
    /\ cb = Absent /\ cbCalls = Absent /\ cbHist = Absent
    /\ rl = Absent /\ rlCalls = Absent /\ rlHist = Absent
    /\ \E m \in 1..MaxConcurrencyBound : bh = NewBulkhead(m)
    /\ bhCalls = [p \in BhCallers |-> BhIdle]
    /\ policy = Absent /\ chain = Absent /\ send = Absent
    /\ response = Absent /\ async = Absent /\ builder = Absent
    /\ ev = NoEv

NextBH ==
    \/ \E p \in BhCallers, ctxDone \in BOOLEAN : BHSelect(p, ctxDone)
    \/ \E p \in BhCallers : BHIncrement(p)
    \/ \E p \in BhCallers, outcome \in {"ok", "err", "panic"} : BHFnExit(p, outcome)
    \/ \E p \in BhCallers : BHRelease(p)
    \/ \E p \in BhCallers : BHDecrement(p)

SpecBH == InitBH /\ [][NextBH]_vars

----------------------------------------------------------------------------
(* The rate limiter under concurrent callers of Allow, Wait and GetMetrics *)

\* ctxFirst : the context was done before the timer of the select fired
\* slept    : this call has been through the select (observation only)
RlIdle == [pc |-> "idle", wakeAt |-> 0, ctxDone |-> FALSE, ctxFirst |-> FALSE,
           slept |-> FALSE, result |-> "none"]

\* what the bucket would hold at time t were the refill not capped
Uncapped(r, t) == r.tokens + (t - r.lastRefillTime) * r.rate

\* rlHist[s]: the number of calls admitted at tick s (when the history is kept)
Admit(h, t) == IF t \in DOMAIN h THEN [h EXCEPT ![t] = h[t] + 1] ELSE h

RECURSIVE SumFrom(_, _, _)
SumFrom(h, s, t) == IF s > t THEN 0 ELSE h[s] + SumFrom(h, s + 1, t)

\* the number of calls admitted in the interval [s, now]
AdmittedSince(s) == SumFrom(rlHist, s, now)

RLTick ==
    /\ now < RlMaxTime
    /\ now' = now + 1
    /\ UNCHANGED <<cbVars, bhVars, rlVars, chainVars, ev, otherVars>>

\* a direct call of Allow()
RLAllow ==
    /\ LET a == Allow(rl, now)
       IN  /\ rl' = a.rl
           /\ rlHist' = IF a.ok THEN Admit(rlHist, now) ELSE rlHist
           /\ ev' = [op |-> "rlAllow", ok |-> a.ok, before |-> rl.tokens,
                     raw |-> Uncapped(rl, now), at |-> now]
    /\ UNCHANGED <<now, cbVars, bhVars, rlCalls, chainVars, otherVars>>

\* GetMetrics(): refill and report
RLGetMetrics ==
    /\ rl' = refill(rl, now)
    /\ ev' = [op |-> "rlGetMetrics", ok |-> FALSE, before |-> rl.tokens,
              raw |-> Uncapped(rl, now)]
    /\ UNCHANGED <<now, cbVars, bhVars, rlCalls, rlHist, chainVars, otherVars>>

\* Wait(ctx) is entered; the context may already be done
RLWaitCall(p, ctxDone) ==
    /\ rlCalls[p].pc = "idle"
    /\ rlCalls' = [rlCalls EXCEPT ![p] = [RlIdle EXCEPT !.pc = "loop",
                                                       !.ctxDone = ctxDone]]
    /\ ev' = [op |-> "rlWaitCall", caller |-> p]
    /\ UNCHANGED <<now, cbVars, bhVars, rl, rlHist, chainVars, otherVars>>

\* Wait, head of the loop: if rl.Allow() { return nil }
RLWaitTry(p) ==
    /\ rlCalls[p].pc = "loop"
    /\ LET a == Allow(rl, now)
       IN  /\ rl' = a.rl
           /\ rlHist' = IF a.ok THEN Admit(rlHist, now) ELSE rlHist
           /\ rlCalls' = [rlCalls EXCEPT ![p].pc = IF a.ok THEN "idle" ELSE "denied",
                                         ![p].result = IF a.ok THEN "nil" ELSE "none",
                                         ![p].slept = FALSE]
           /\ ev' = [op |-> "rlWaitTry", caller |-> p, ok |-> a.ok,
                     before |-> rl.tokens, raw |-> Uncapped(rl, now),
                     slept |-> rlCalls[p].slept,
                     ctxDone |-> rlCalls[p].ctxDone, at |-> now]
    /\ UNCHANGED <<now, cbVars, bhVars, chainVars, otherVars>>

\* Wait: waitTime := rl.calculateWaitTime(); the timer is started
RLWaitCalc(p) ==
    /\ rlCalls[p].pc = "denied"
    /\ LET w == calculateWaitTime(rl, now)
       IN  /\ rl' = w.rl
           /\ rlCalls' = [rlCalls EXCEPT ![p].pc = "sleeping",
                                         ![p].wakeAt = now + w.wait,
                                         ![p].ctxFirst = rlCalls[p].ctxDone /\ w.wait > 0]
           /\ ev' = [op |-> "rlWaitCalc", caller |-> p, wait |-> w.wait,
                     before |-> rl.tokens]
    /\ UNCHANGED <<now, cbVars, bhVars, rlHist, chainVars, otherVars>>

\* Wait, select: case <-time.After(waitTime)
RLWaitWake(p) ==
    /\ rlCalls[p].pc = "sleeping"
    /\ "timer" \in WaitSelectCases(rlCalls[p].ctxDone, rlCalls[p].ctxFirst,
                                   rlCalls[p].wakeAt, now)
    /\ rlCalls' = [rlCalls EXCEPT ![p].pc = "loop", ![p].wakeAt = 0,
                                  ![p].ctxFirst = FALSE, ![p].slept = TRUE]
    /\ ev' = [op |-> "rlWaitWake", caller |-> p, ctxFirst |-> rlCalls[p].ctxFirst]
    /\ UNCHANGED <<now, cbVars, bhVars, rl, rlHist, chainVars, otherVars>>

\* Wait, select: case <-ctx.Done(): return ctx.Err()
RLWaitCtxDone(p) ==
    /\ rlCalls[p].pc = "sleeping"
    /\ "ctx" \in WaitSelectCases(rlCalls[p].ctxDone, rlCalls[p].ctxFirst,
                                 rlCalls[p].wakeAt, now)
    /\ rlCalls' = [rlCalls EXCEPT ![p].pc = "idle", ![p].wakeAt = 0,
                                  ![p].ctxFirst = FALSE, ![p].slept = FALSE,
                                  ![p].result = "ctxErr"]
    /\ ev' = [op |-> "rlWaitCtxDone", caller |-> p]
    /\ UNCHANGED <<now, cbVars, bhVars, rl, rlHist, chainVars, otherVars>>

\* the caller's context is cancelled while Wait is running
RLCtxCancel(p) ==
    /\ rlCalls[p].pc /= "idle"
    /\ ~rlCalls[p].ctxDone
    /\ rlCalls' = [rlCalls EXCEPT ![p].ctxDone = TRUE,
                                  ![p].ctxFirst = (rlCalls[p].pc = "sleeping"
                                                   /\ now < rlCalls[p].wakeAt)]
    /\ ev' = [op |-> "rlCtxCancel", caller |-> p]
    /\ UNCHANGED <<now, cbVars, bhVars, rl, rlHist, chainVars, otherVars>>

InitRL ==
    /\ now = 0
    /\ cb = Absent /\ cbCalls = Absent /\ cbHist = Absent
    /\ bh = Absent /\ bhCalls = Absent
    /\ \E rate \in 1..MaxRate, burst \in 0..MaxBurst :
          rl = NewRateLimiter(rate, burst, now)
    /\ rlCalls = [p \in RlCallers |-> RlIdle]
    /\ rlHist = [s \in 0..RlMaxTime |-> 0]
    /\ policy = Absent /\ chain = Absent /\ send = Absent
    /\ response = Absent /\ async = Absent /\ builder = Absent
    /\ ev = NoEv

NextRL ==
    \/ RLTick
    \/ RLAllow
    \/ RLGetMetrics
    \/ \E p \in RlCallers, ctxDone \in BOOLEAN : RLWaitCall(p, ctxDone)
    \/ \E p \in RlCallers : RLWaitTry(p)
    \/ \E p \in RlCallers : RLWaitCalc(p)
    \/ \E p \in RlCallers : RLWaitWake(p)
    \/ \E p \in RlCallers : RLWaitCtxDone(p)
    \/ \E p \in RlCallers : RLCtxCancel(p)

SpecRL == InitRL /\ [][NextRL]_vars

----------------------------------------------------------------------------
(* The rate limiter with a clock that never stops: for what Wait does in    *)
(* the long run.  Only the time since the last refill and the time left on  *)
(* each timer matter, so the instant observed is kept at 0 and the passing   *)
(* of a tick moves lastRefillTime and the timers one tick back.  A refill    *)
(* after more than burst seconds fills the bucket whatever the excess, so    *)
(* lastRefillTime stops moving there.                                        *)

RLTimePasses ==
    /\ rl' = [rl EXCEPT !.lastRefillTime =
                  IF now - rl.lastRefillTime < rl.burst * OneToken
                  THEN rl.lastRefillTime - 1 ELSE rl.lastRefillTime]
    /\ rlCalls' = [p \in RlCallers |->
                      [rlCalls[p] EXCEPT !.wakeAt =
                          IF rlCalls[p].wakeAt > now THEN rlCalls[p].wakeAt - 1
                          ELSE rlCalls[p].wakeAt]]
    /\ UNCHANGED <<now, cbVars, bhVars, rlHist, chainVars, ev, otherVars>>

InitRLWait ==
    /\ now = 0
    /\ cb = Absent /\ cbCalls = Absent /\ cbHist = Absent
    /\ bh = Absent /\ bhCalls = Absent
    /\ \E rate \in 1..MaxRate, burst \in 0..MaxBurst :
          rl = NewRateLimiter(rate, burst, now)
    /\ rlCalls = [p \in RlCallers |-> RlIdle]
    /\ rlHist = Absent
    /\ policy = Absent /\ chain = Absent /\ send = Absent
    /\ response = Absent /\ async = Absent /\ builder = Absent
    /\ ev = NoEv

NextRLWait ==
    \/ RLTimePasses
    \/ RLAllow
    \/ RLGetMetrics
    \/ \E p \in RlCallers, ctxDone \in BOOLEAN : RLWaitCall(p, ctxDone)
    \/ \E p \in RlCallers : RLWaitTry(p)
    \/ \E p \in RlCallers : RLWaitCalc(p)
    \/ \E p \in RlCallers : RLWaitWake(p)
    \/ \E p \in RlCallers : RLWaitCtxDone(p)
    \/ \E p \in RlCallers : RLCtxCancel(p)

\* time passes, and every goroutine in Wait that can take a step is scheduled
SpecRLWait ==
    /\ InitRLWait /\ [][NextRLWait]_vars
    /\ WF_vars(RLTimePasses)
    /\ \A p \in RlCallers :
          /\ WF_vars(RLWaitTry(p))
          /\ WF_vars(RLWaitCalc(p))
          /\ WF_vars(RLWaitWake(p) \/ RLWaitCtxDone(p))

----------------------------------------------------------------------------
(* One Send through the assembled chain.  The chain is the list of its     *)
(* stages, outermost first; a stage calls the next one (d.wrapped.Send) and *)
(* gets its result back.  The clock moves while the network call is under   *)
(* way and while a stage sleeps; a timer fires after its delay plus an       *)
(* overrun of at most MaxSleepOverrun ticks.  Calls of other goroutines are  *)
(* what the bulkhead and the rate limiter start with (slots held, tokens     *)
(* taken).                                                                   *)

\* faulty variant: the bulkhead is wrapped before the rate limiter
createClientWithBulkheadInnermost(rb) ==
    LET c1 == <<"base">>
        c2 == IF rb.hasBH THEN <<"bh">> \o c1 ELSE c1
        c3 == IF rb.hasRL THEN <<"rl">> \o c2 ELSE c2
        c4 == IF rb.hasCB THEN <<"cb">> \o c3 ELSE c3
    IN  IF rb.hasRetry THEN <<"retry">> \o c4 ELSE c4

\* createClientWithResiliency: the base client, wrapped with the rate
\* limiter, then the bulkhead, then the circuit breaker, then retry, each
\* only if configured
createClientWithResiliency(rb) ==
    LET c1 == <<"base">>
        c2 == IF rb.hasRL THEN <<"rl">> \o c1 ELSE c1
        c3 == IF rb.hasBH THEN <<"bh">> \o c2 ELSE c2
        c4 == IF rb.hasCB THEN <<"cb">> \o c3 ELSE c3
    IN  IF rb.hasRetry THEN <<"retry">> \o c4 ELSE c4

\* the chain: what the builder was given, and the client it assembled
Chain(hasRetry, hasCB, hasBH, hasRL) ==
    LET rb == [hasRetry |-> hasRetry, hasCB |-> hasCB, hasBH |-> hasBH,
               hasRL |-> hasRL]
    IN  [hasRetry |-> hasRetry, hasCB |-> hasCB, hasBH |-> hasBH, hasRL |-> hasRL,
         client |-> createClientWithResiliency(rb)]

\* request : the IHTTPRequest given to Send: well formed, nil, or one whose
\*    HTTPRequest() is nil
\* depth : the stage that is running, as an index of chain.client (0: the caller)
\* cur   : the (response, error) the stage below has returned
\* wakeAt, ctxFirst : the timer of RateLimiter.Wait, as in RlIdle
\* ctxErr : ctx.Err() once the context is done
\* The rest is observation of this Send:
\* cancelledIn : the sleep or wait the Send was in when the context became
\*    done, its timer not yet due
\* cancelledBase : the base calls made by then
\* wrappedCalls / baseCalls : invocations of the client the RetryDecorator
\*    wraps, and of the base HTTPClient
\* lastWrappedErr : the error of the latest wrapped.Send
\* allWrappedRetryable / allBaseRetryable : every one of those calls so far
\*    failed with a timeout, a 5xx status or a status of the retryable list
\* trace : the stages entered since the caller or the retry loop last called in
\* rejectedBy : the stage that turned that call away
\* snap : the bulkhead and the rate limiter when that call started (and the
\*        breaker, for a call with a malformed request)
\* cbFailures / baseFailures : failures recorded by the breaker, failed base calls
\* produced : responses the base client has produced
\* waitResult : what the latest RateLimiter.Wait returned
Send0 == [pc |-> "start", request |-> "wellFormed",
          depth |-> 0, attempt |-> 0, lastErr |-> NilErr,
          cur |-> [resp |-> NilResp, err |-> NilErr],
          result |-> [resp |-> NilResp, err |-> NilErr],
          ctxDone |-> FALSE, ctxErr |-> "none", delay |-> 0,
          wakeAt |-> 0, ctxFirst |-> FALSE,
          cancelledIn |-> "none", cancelledBase |-> 0,
          wrappedCalls |-> 0, baseCalls |-> 0, lastWrappedErr |-> NilErr,
          allWrappedRetryable |-> TRUE, allBaseRetryable |-> TRUE,
          trace |-> <<>>, rejectedBy |-> "none", snap |-> <<>>,
          cbFailures |-> 0, baseFailures |-> 0, produced |-> 0,
          waitResult |-> NilErr]

\* a transport-level or server-side failure of the taxonomy: timeout, 5xx, or
\* a status of the policy's retryable list
RetryableFailure(rp, e) ==
    /\ e.type = "HTTPError"
    /\ \/ e.cause = "timeout"
       \/ (e.StatusCode >= 500 /\ e.StatusCode < 600)
       \/ e.StatusCode \in rp.retryableErrors

\* &models.HTTPError{Message: msg, Err: ctx.Err()}
CancelledError(cause, msg) == HTTPError(0, cause, msg)

\* ctx.Err() itself: context.Canceled or context.DeadlineExceeded
CtxErr(cause) == [type |-> "context", StatusCode |-> 0, cause |-> cause, msg |-> ""]

\* the error of a Bulkhead.Execute that found no free slot
CapacityError == PlainError("bulkhead: maximum concurrency reached, request rejected")

\* the stage that is running
Stage(sd) == IF sd.depth = 0 THEN "caller" ELSE chain.client[sd.depth]

\* d.wrapped.Send(request): the next stage is entered
Enter(sd) == [sd EXCEPT !.pc = "enter", !.depth = sd.depth + 1,
                        !.trace = Append(sd.trace, chain.client[sd.depth + 1])]

\* the running stage returns r to the stage that called it, or to the caller
Return(sd, r) ==
    IF sd.depth = 1
    THEN [sd EXCEPT !.pc = "done", !.depth = 0, !.cur = r, !.result = r]
    ELSE [sd EXCEPT !.pc = "return", !.depth = sd.depth - 1, !.cur = r]

\* a call into the chain starts: by the caller, or by an iteration of the retry loop
CallStarts(sd, tr) ==
    [sd EXCEPT !.trace = tr, !.rejectedBy = "none",
               !.snap = [cb |-> IF sd.request = "wellFormed" THEN Absent ELSE cb,
                         bh |-> bh, rl |-> rl]]

\* the wrapped client has returned r to the RetryDecorator
WrappedReturned(sd, r) ==
    [sd EXCEPT !.lastWrappedErr = r.err,
               !.allWrappedRetryable = sd.allWrappedRetryable
                                        /\ RetryableFailure(policy, r.err)]

\* time.After(d) fires at once when d <= 0
SleepTime(d) == IF d < 0 THEN 0 ELSE d

\* faulty variant: the backoff is a plain sleep that does not watch the context
BackoffSelectCasesSleepOnly(sd) == {"timer"}

\* The select of the backoff: a context that becomes done during the sleep
\* ends it; a timer of no positive delay (GetDelay(0) is 0) is ready at once,
\* and with both cases ready Go picks either.
BackoffSelectCases(sd) ==
    (IF sd.ctxDone THEN {"ctx"} ELSE {})
    \cup (IF ~sd.ctxDone \/ sd.delay <= 0 THEN {"timer"} ELSE {})

\* the requests a caller may pass to Send
Requests == {"wellFormed", "nil", "nilHTTPRequest"}

\* the caller calls Send on the outermost stage
ChainSendCall(request) ==
    /\ send.pc = "start"
    /\ send' = Enter(CallStarts([send EXCEPT !.request = request], <<>>))
    /\ UNCHANGED <<now, cbVars, bhVars, rlVars, policy, chain, ev, otherVars>>

\* faulty variant: the loop does not check ctx.Done() before an attempt
RetryLoopHeadWithoutCtxCheck ==
    /\ Stage(send) = "retry"
    /\ send.pc \in {"enter", "loopHead"}
    /\ send.request = "wellFormed"
    /\ send' = IF ~RetryLoopRuns(policy, send.attempt)
               THEN Return(send, [resp |-> NilResp, err |-> send.lastErr])
               ELSE Enter([CallStarts(send, <<"retry">>)
                              EXCEPT !.wrappedCalls = send.wrappedCalls + 1])
    /\ UNCHANGED <<now, cbVars, bhVars, rlVars, policy, chain, ev, otherVars>>

\* RetryDecorator.Send, head of the loop: the loop condition, then the check
\* of ctx.Done(), then d.wrapped.Send
RetryLoopHead ==
    /\ Stage(send) = "retry"
    /\ send.pc \in {"enter", "loopHead"}
    /\ send.request = "wellFormed"
    /\ send' = IF ~RetryLoopRuns(policy, send.attempt)
               THEN Return(send, [resp |-> NilResp, err |-> send.lastErr])
               ELSE IF send.ctxDone
               THEN Return(send, [resp |-> NilResp,
                                  err |-> CancelledError(send.ctxErr,
                                              "request cancelled during retry")])
               ELSE Enter([CallStarts(send, <<"retry">>)
                              EXCEPT !.wrappedCalls = send.wrappedCalls + 1])
    /\ UNCHANGED <<now, cbVars, bhVars, rlVars, policy, chain, ev, otherVars>>

\* RetryDecorator.Send after wrapped.Send: return on success, break when
\* ShouldRetry is false, else get the delay and enter the backoff select
RetryEvaluate ==
    /\ Stage(send) = "retry"
    /\ send.pc = "return"
    /\ \E delay \in GetDelay(policy, send.attempt) :
       LET sd == WrappedReturned(send, send.cur)
       IN  send' = IF send.cur.err.type = "nil"
                   THEN Return(sd, [resp |-> send.cur.resp, err |-> NilErr])
                   ELSE IF ~ShouldRetry(policy, send.cur.err, send.attempt)
                   THEN Return([sd EXCEPT !.lastErr = send.cur.err],
                               [resp |-> NilResp, err |-> send.cur.err])
                   ELSE [sd EXCEPT !.pc = "backoff", !.lastErr = send.cur.err,
                                   !.delay = delay]
    /\ UNCHANGED <<now, cbVars, bhVars, rlVars, policy, chain, ev, otherVars>>

\* backoff select: case <-time.After(delay); then attempt++
RetryBackoffElapsed(overrun) ==
    /\ send.pc = "backoff"
    /\ "timer" \in BackoffSelectCases(send)
    /\ now' = now + SleepTime(send.delay) + overrun
    /\ send' = [send EXCEPT !.pc = "loopHead", !.attempt = send.attempt + 1,
                            !.delay = 0]
    /\ UNCHANGED <<cbVars, bhVars, rlVars, policy, chain, ev, otherVars>>

\* backoff select: case <-ctx.Done(), at some moment of the sleep
RetryBackoffCancelled(slept) ==
    /\ send.pc = "backoff"
    /\ "ctx" \in BackoffSelectCases(send)
    /\ slept <= SleepTime(send.delay)
    /\ now' = now + slept
    /\ send' = Return([send EXCEPT !.delay = 0],
                      [resp |-> NilResp,
                       err |-> CancelledError(send.ctxErr,
                                   "request cancelled during retry backoff")])
    /\ UNCHANGED <<cbVars, bhVars, rlVars, policy, chain, ev, otherVars>>

\* CircuitBreakerDecorator.Send -> Execute: canExecute; a rejected call
\* returns the circuit-open error, an admitted one runs fn (d.wrapped.Send)
ChainCBAdmit ==
    /\ Stage(send) = "cb"
    /\ send.pc = "enter"
    /\ send.request = "wellFormed"
    /\ LET r == canExecute(cb, now)
       IN  /\ cb' = r.cb
           /\ send' = IF r.ok THEN Enter(send)
                      ELSE Return([send EXCEPT !.rejectedBy = "cb"],
                                  [resp |-> NilResp, err |-> CircuitOpenError])
    /\ UNCHANGED <<now, cbCalls, cbHist, bhVars, rlVars, policy, chain, ev, otherVars>>

\* CircuitBreaker.Execute after fn(): recordResult(err), return resp, err
ChainCBRecord ==
    /\ Stage(send) = "cb"
    /\ send.pc = "return"
    /\ cb' = recordResult(cb, send.cur.err.type /= "nil", now)
    /\ send' = Return([send EXCEPT !.cbFailures =
                          IF send.cur.err.type /= "nil" THEN send.cbFailures + 1
                          ELSE send.cbFailures],
                      send.cur)
    /\ UNCHANGED <<now, cbCalls, cbHist, bhVars, rlVars, policy, chain, ev, otherVars>>

\* BulkheadDecorator.Send -> Execute: the select
ChainBHSelect ==
    /\ Stage(send) = "bh"
    /\ send.pc = "enter"
    /\ send.request = "wellFormed"
    /\ \E c \in SelectCases(bh, send.ctxDone) :
          /\ bh' = IF c = "acquire"
                   THEN [bh EXCEPT !.semaphore = bh.semaphore + 1] ELSE bh
          /\ send' = CASE c = "acquire" -> [send EXCEPT !.pc = "bhAcquired"]
                       [] c = "ctx"     ->
                            Return(send, [resp |-> NilResp, err |-> CtxErr(send.ctxErr)])
                       [] OTHER         ->
                            Return([send EXCEPT !.rejectedBy = "bh"],
                                   [resp |-> NilResp, err |-> CapacityError])
    /\ UNCHANGED <<now, cbVars, bhCalls, rlVars, policy, chain, ev, otherVars>>

\* Execute: atomic.AddInt64(&b.activeCount, 1), the defer, then fn()
ChainBHIncrement ==
    /\ send.pc = "bhAcquired"
    /\ bh' = [bh EXCEPT !.activeCount = bh.activeCount + 1]
    /\ send' = Enter(send)
    /\ UNCHANGED <<now, cbVars, bhCalls, rlVars, policy, chain, ev, otherVars>>

\* Execute, fn has returned; the deferred function: <-b.semaphore
ChainBHRelease ==
    /\ Stage(send) = "bh"
    /\ send.pc = "return"
    /\ bh' = [bh EXCEPT !.semaphore = bh.semaphore - 1]
    /\ send' = [send EXCEPT !.pc = "bhReleased"]
    /\ UNCHANGED <<now, cbVars, bhCalls, rlVars, policy, chain, ev, otherVars>>

\* the deferred function: atomic.AddInt64(&b.activeCount, -1); Execute returns
ChainBHDecrement ==
    /\ send.pc = "bhReleased"
    /\ bh' = [bh EXCEPT !.activeCount = bh.activeCount - 1]
    /\ send' = Return(send, send.cur)
    /\ UNCHANGED <<now, cbVars, bhCalls, rlVars, policy, chain, ev, otherVars>>

\* RateLimiterDecorator.Send: the select on ctx.Done() with a default case
\* that calls rateLimiter.Wait(ctx)
ChainRLEnter ==
    /\ Stage(send) = "rl"
    /\ send.pc = "enter"
    /\ send.request = "wellFormed"
    /\ send' = IF send.ctxDone
               THEN Return(send, [resp |-> NilResp,
                                  err |-> CancelledError(send.ctxErr,
                                              "request cancelled before rate limiting")])
               ELSE [send EXCEPT !.pc = "rlLoop", !.waitResult = NilErr]
    /\ UNCHANGED <<now, cbVars, bhVars, rlVars, policy, chain, ev, otherVars>>

\* Wait, head of the loop: if rl.Allow() { return nil }; the decorator then
\* calls d.wrapped.Send
ChainRLWaitTry ==
    /\ send.pc = "rlLoop"
    /\ LET a == Allow(rl, now)
       IN  /\ rl' = a.rl
           /\ send' = IF a.ok THEN Enter([send EXCEPT !.waitResult = NilErr])
                      ELSE [send EXCEPT !.pc = "rlDenied"]
    /\ UNCHANGED <<now, cbVars, bhVars, rlCalls, rlHist, policy, chain, ev, otherVars>>

\* Wait: waitTime := rl.calculateWaitTime(); the select is entered
ChainRLWaitCalc ==
    /\ send.pc = "rlDenied"
    /\ LET w == calculateWaitTime(rl, now)
       IN  /\ rl' = w.rl
           /\ send' = [send EXCEPT !.pc = "rlSleeping", !.wakeAt = now + w.wait,
                                   !.ctxFirst = send.ctxDone /\ w.wait > 0]
    /\ UNCHANGED <<now, cbVars, bhVars, rlCalls, rlHist, policy, chain, ev, otherVars>>

\* Wait, select: case <-time.After(waitTime)
ChainRLWaitWake(overrun) ==
    /\ send.pc = "rlSleeping"
    /\ LET firesAt == (IF send.wakeAt > now THEN send.wakeAt ELSE now) + overrun
       IN  /\ "timer" \in WaitSelectCases(send.ctxDone, send.ctxFirst,
                                          send.wakeAt, firesAt)
           /\ now' = firesAt
    /\ send' = [send EXCEPT !.pc = "rlLoop", !.wakeAt = 0, !.ctxFirst = FALSE]
    /\ UNCHANGED <<cbVars, bhVars, rlVars, policy, chain, ev, otherVars>>

\* Wait, select: case <-ctx.Done(): return ctx.Err(), at some moment of the
\* wait; the decorator wraps the error
ChainRLWaitCtxDone(slept) ==
    /\ send.pc = "rlSleeping"
    /\ "ctx" \in WaitSelectCases(send.ctxDone, send.ctxFirst, send.wakeAt, now)
    /\ slept <= SleepTime(send.wakeAt - now)
    /\ now' = now + slept
    /\ send' = Return([send EXCEPT !.wakeAt = 0, !.ctxFirst = FALSE,
                                   !.waitResult = CtxErr(send.ctxErr)],
                      [resp |-> NilResp,
                       err |-> CancelledError(send.ctxErr, "rate limit exceeded")])
    /\ UNCHANGED <<cbVars, bhVars, rlVars, policy, chain, ev, otherVars>>

\* RateLimiterDecorator.Send: return d.wrapped.Send(request)
ChainRLReturn ==
    /\ Stage(send) = "rl"
    /\ send.pc = "return"
    /\ send' = Return(send, send.cur)
    /\ UNCHANGED <<now, cbVars, bhVars, rlVars, policy, chain, ev, otherVars>>

\* HTTPClient.Send: one network attempt, taking some time
BaseSend(o, latency) ==
    /\ Stage(send) = "base"
    /\ send.pc = "enter"
    /\ send.request = "wellFormed"
    /\ now' = now + latency
    /\ LET r == HTTPClientSend(o)
       IN  send' = Return([send EXCEPT
                              !.baseCalls = send.baseCalls + 1,
                              !.allBaseRetryable =
                                  IF chain.hasRetry
                                  THEN send.allBaseRetryable
                                       /\ RetryableFailure(policy, r.err)
                                  ELSE send.allBaseRetryable,
                              !.baseFailures = IF r.err.type /= "nil"
                                               THEN send.baseFailures + 1
                                               ELSE send.baseFailures,
                              !.produced = IF r.resp /= NilResp
                                           THEN send.produced + 1
                                           ELSE send.produced],
                          r)
    /\ UNCHANGED <<cbVars, bhVars, rlVars, policy, chain, ev, otherVars>>

\* a decorator's Send, first statement: ctx := request.HTTPRequest().Context()
\* on a nil request, or on the nil *http.Request it returns: a nil
\* dereference, which panics
DecoratorNilDereference ==
    /\ Stage(send) \in {"retry", "cb", "bh", "rl"}
    /\ send.pc = "enter"
    /\ send.request /= "wellFormed"
    /\ send' = [send EXCEPT !.pc = "panicked", !.depth = 0]
    /\ UNCHANGED <<now, cbVars, bhVars, rlVars, policy, chain, ev, otherVars>>

\* HTTPClient.Send given a nil request or one whose HTTPRequest() is nil:
\* the error is returned before anything is sent
BaseSendMalformed ==
    /\ Stage(send) = "base"
    /\ send.pc = "enter"
    /\ send.request /= "wellFormed"
    /\ send' = Return(send,
                      [resp |-> NilResp,
                       err |-> HTTPError(0, "none",
                                  IF send.request = "nil" THEN "request cannot be nil"
                                  ELSE "invalid request: HTTPRequest is nil")])
    /\ UNCHANGED <<now, cbVars, bhVars, rlVars, policy, chain, ev, otherVars>>

\* the request's context becomes done: cancelled, or its deadline passed
ChainCtxCancel(cause) ==
    /\ send.pc \notin {"start", "done", "panicked"}
    /\ send.request = "wellFormed"
    /\ ~send.ctxDone
    /\ LET asleep == (send.pc = "backoff" /\ send.delay > 0)
                         \/ (send.pc = "rlSleeping" /\ now < send.wakeAt)
       IN  send' = [send EXCEPT !.ctxDone = TRUE, !.ctxErr = cause,
                                !.cancelledIn = IF asleep THEN send.pc ELSE "elsewhere",
                                !.cancelledBase = IF asleep THEN send.baseCalls ELSE 0,
                                !.ctxFirst = (send.pc = "rlSleeping"
                                              /\ now < send.wakeAt)]
    /\ UNCHANGED <<now, cbVars, bhVars, rlVars, policy, chain, ev, otherVars>>

\* retry around the base client, with or without a circuit breaker between them
InitChain ==
    /\ now = 0
    /\ \E hasCB \in BOOLEAN, ft \in 1..MaxChainThreshold, to \in 1..MaxChainTimeout :
          /\ chain = Chain(TRUE, hasCB, FALSE, FALSE)
          /\ cb = IF hasCB THEN NewCircuitBreaker(ft, to) ELSE Absent
    /\ cbCalls = Absent /\ cbHist = Absent
    /\ bh = Absent /\ bhCalls = Absent
    /\ rl = Absent /\ rlCalls = Absent /\ rlHist = Absent
    /\ \E n \in 0..MaxAttemptsBound, d0 \in 1..MaxInitialDelay, dmax \in 1..MaxDelayBound :
          policy = NewRetryPolicyWithConfig(n, d0, dmax, DefaultMultiplier)
    /\ send = Send0
    /\ response = Absent /\ async = Absent /\ builder = Absent
    /\ ev = NoEv

NextChain ==
    \/ ChainSendCall("wellFormed")
    \/ RetryLoopHead
    \/ ChainCBAdmit
    \/ \E o \in BaseOutcomes, latency \in 0..MaxLatency : BaseSend(o, latency)
    \/ ChainCBRecord
    \/ RetryEvaluate
    \/ \E overrun \in 0..MaxSleepOverrun : RetryBackoffElapsed(overrun)
    \/ \E slept \in 0..MaxDelayBound : RetryBackoffCancelled(slept)
    \/ \E cause \in {"canceled", "deadlineExceeded"} : ChainCtxCancel(cause)

SpecChain == InitChain /\ [][NextChain]_vars

----------------------------------------------------------------------------
(* One Send through a chain of any subset of the four stages *)

\* what the base client does in the full chain: a success, a client error, a
\* server error, a timeout
StackOutcomes ==
    {[status |-> st, cause |-> "none"] : st \in {200, 404, 500}}
    \cup {[status |-> 0, cause |-> "timeout"]}

\* a bulkhead of which other calls hold k slots
BulkheadInUse(maxConcurrency, k) ==
    [NewBulkhead(maxConcurrency) EXCEPT !.semaphore = k, !.activeCount = k]

\* a rate limiter of which other calls have taken k tokens at time t
RateLimiterInUse(rate, burst, k, t) ==
    [NewRateLimiter(rate, burst, t) EXCEPT !.tokens = (burst - k) * OneToken]

InitStack ==
    /\ now = 0
    /\ \E hasRetry \in BOOLEAN, hasCB \in BOOLEAN, hasBH \in BOOLEAN, hasRL \in BOOLEAN :
          /\ chain = Chain(hasRetry, hasCB, hasBH, hasRL)
          /\ \E ft \in 1..MaxChainThreshold :
                cb = IF hasCB THEN NewCircuitBreaker(ft, MaxChainTimeout) ELSE Absent
          /\ \E m \in 1..MaxConcurrencyBound, k \in 0..MaxConcurrencyBound :
                /\ k \in {m - 1, m}
                /\ bh = IF hasBH THEN BulkheadInUse(m, k) ELSE Absent
          /\ \E rate \in 1..MaxRate, k \in {0, MaxBurst} :
                rl = IF hasRL THEN RateLimiterInUse(rate, MaxBurst, k, now) ELSE Absent
          /\ \E n \in 1..MaxStackAttempts :
                policy = IF hasRetry
                         THEN NewRetryPolicyWithConfig(n, MaxInitialDelay, MaxDelayBound,
                                                       DefaultMultiplier)
                         ELSE Absent
    /\ cbCalls = Absent /\ cbHist = Absent
    /\ bhCalls = Absent
    /\ rlCalls = Absent /\ rlHist = Absent
    /\ send = Send0
    /\ response = Absent /\ async = Absent /\ builder = Absent
    /\ ev = NoEv

NextStack ==
    \/ \E request \in Requests : ChainSendCall(request)
    \/ DecoratorNilDereference
    \/ BaseSendMalformed
    \/ RetryLoopHead
    \/ RetryEvaluate
    \/ \E overrun \in 0..MaxSleepOverrun : RetryBackoffElapsed(overrun)
    \/ \E slept \in 0..MaxDelayBound : RetryBackoffCancelled(slept)
    \/ ChainCBAdmit
    \/ ChainCBRecord
    \/ ChainBHSelect
    \/ ChainBHIncrement
    \/ ChainBHRelease
    \/ ChainBHDecrement
    \/ ChainRLEnter
    \/ ChainRLWaitTry
    \/ ChainRLWaitCalc
    \/ \E overrun \in 0..MaxSleepOverrun : ChainRLWaitWake(overrun)
    \/ \E slept \in 0..TicksPerSecond : ChainRLWaitCtxDone(slept)
    \/ ChainRLReturn
    \/ \E o \in StackOutcomes, latency \in 0..MaxLatency : BaseSend(o, latency)
    \/ \E cause \in {"canceled", "deadlineExceeded"} : ChainCtxCancel(cause)

SpecStack == InitStack /\ [][NextStack]_vars

----------------------------------------------------------------------------
(* The retry policy on its own: its configuration calls, and ShouldRetry   *)
(* and GetDelay applied to every error and attempt number                  *)

\* the status codes the configuration calls and the errors are drawn from
PolicyStatusCodes == {404, 429, 500, 501}

\* the errors ShouldRetry is applied to: an HTTPError with a status, with an
\* underlying cause, or with both, and an error of another type
PolicyErrors ==
    {HTTPError(st, c, "request failed") :
        st \in PolicyStatusCodes \cup {0}, c \in {"none", "timeout", "refused"}}
    \cup {CircuitOpenError}

PolicyWithRetryableStatusCodes(codes) ==
    /\ policy' = WithRetryableStatusCodes(policy, codes)
    /\ ev' = [op |-> "withRetryableStatusCodes"]
    /\ UNCHANGED <<now, cbVars, bhVars, rlVars, chain, send, otherVars>>

PolicyAddRetryableStatusCode(code) ==
    /\ policy' = AddRetryableStatusCode(policy, code)
    /\ ev' = [op |-> "addRetryableStatusCode"]
    /\ UNCHANGED <<now, cbVars, bhVars, rlVars, chain, send, otherVars>>

PolicyShouldRetry(err, attempt) ==
    /\ ev' = [op |-> "shouldRetry", err |-> err, attempt |-> attempt,
              result |-> ShouldRetry(policy, err, attempt)]
    /\ UNCHANGED <<now, cbVars, bhVars, rlVars, chainVars, otherVars>>

PolicyGetDelay(attempt) ==
    /\ \E result \in GetDelay(policy, attempt) :
          ev' = [op |-> "getDelay", attempt |-> attempt, result |-> result]
    /\ UNCHANGED <<now, cbVars, bhVars, rlVars, chainVars, otherVars>>

InitPolicy ==
    /\ now = 0
    /\ cb = Absent /\ cbCalls = Absent /\ cbHist = Absent
    /\ bh = Absent /\ bhCalls = Absent
    /\ rl = Absent /\ rlCalls = Absent /\ rlHist = Absent
    /\ \E n \in 0..MaxAttemptsBound, d0 \in 0..MaxInitialDelay,
          dmax \in 1..MaxDelayBound, mult \in 1..MaxMultiplier :
          policy = NewRetryPolicyWithConfig(n, d0, dmax, mult)
    /\ chain = Absent /\ send = Absent
    /\ response = Absent /\ async = Absent /\ builder = Absent
    /\ ev = NoEv

NextPolicy ==
    \/ \E codes \in SUBSET PolicyStatusCodes : PolicyWithRetryableStatusCodes(codes)
    \/ \E code \in PolicyStatusCodes : PolicyAddRetryableStatusCode(code)
    \/ \E err \in PolicyErrors, attempt \in 0..(MaxAttemptsBound + 1) :
          PolicyShouldRetry(err, attempt)
    \/ \E attempt \in 0..(MaxAttemptsBound + 1) : PolicyGetDelay(attempt)

SpecPolicy == InitPolicy /\ [][NextPolicy]_vars

----------------------------------------------------------------------------
(* models.Response: Body, BodyString, JSON and Close called one after the   *)
(* other on one Response.  The body stream is HttpResp.Body: the bytes the   *)
(* server sent, read by io.ReadAll, which may fail; once closed it cannot be *)
(* read.                                                                      *)

\* the bytes a body is made of
Bytes == {"{", "}"}

\* the bodies a server may send
Bodies == UNION {[1..n -> Bytes] : n \in 0..MaxBodyLen}

\* &models.Response{HttpResp: httpResp}; hasBody: HttpResp.Body /= nil
\* reads : the calls of io.ReadAll on the stream (observation)
\* succeeded, first : a Body() has succeeded, and the bytes the first such
\*    call returned (observation)
\* calls : the calls made on the Response so far (observation)
NewResponse(content, hasBody) ==
    [ hasBody  |-> hasBody,
      content  |-> content,
      closed   |-> FALSE,
      BodyData |-> <<>>,
      BodyRead |-> FALSE,
      reads    |-> 0,
      succeeded |-> FALSE,
      first    |-> <<>>,
      calls    |-> 0 ]

\* faulty variant: Body does not mark the body as read
BodyUncached(r, readOk) ==
    IF r.BodyRead
    THEN [r |-> r, data |-> r.BodyData, err |-> "nil", touched |-> FALSE]
    ELSE IF ~r.hasBody
    THEN [r |-> r, data |-> <<>>, err |-> "response body is nil", touched |-> FALSE]
    ELSE IF r.closed \/ ~readOk
    THEN [r |-> [r EXCEPT !.closed = TRUE, !.reads = r.reads + 1],
          data |-> <<>>, err |-> "failed to read response body", touched |-> TRUE]
    ELSE [r |-> [r EXCEPT !.closed = TRUE, !.reads = r.reads + 1,
                          !.BodyData = r.content],
          data |-> r.content, err |-> "nil", touched |-> TRUE]

\* Response.Body: the cached bytes if BodyRead; else io.ReadAll on the stream
\* (deferred Close), which fails on a closed stream or when the read fails
\* (readOk false); on success the bytes are cached and BodyRead is set
Body(r, readOk) ==
    IF r.BodyRead
    THEN [r |-> r, data |-> r.BodyData, err |-> "nil", touched |-> FALSE]
    ELSE IF ~r.hasBody
    THEN [r |-> r, data |-> <<>>, err |-> "response body is nil", touched |-> FALSE]
    ELSE IF r.closed \/ ~readOk
    THEN [r |-> [r EXCEPT !.closed = TRUE, !.reads = r.reads + 1],
          data |-> <<>>, err |-> "failed to read response body", touched |-> TRUE]
    ELSE [r |-> [r EXCEPT !.closed = TRUE, !.reads = r.reads + 1,
                          !.BodyData = r.content, !.BodyRead = TRUE],
          data |-> r.content, err |-> "nil", touched |-> TRUE]

\* string(body): the characters of the bytes
StringOf(data) == [i \in 1..Len(data) |-> <<"char", data[i]>>]

\* json.Unmarshal(body, v) succeeds: the body is a JSON value (here: {})
ValidJSON(data) == data = <<"{", "}">>

\* what a call returned, whether a Body() had succeeded before it, and whether
\* it touched the stream
ResponseEv(op, r, b, value) ==
    [ op |-> op, wasRead |-> r.succeeded, touched |-> b.touched,
      data |-> b.data, err |-> b.err, value |-> value ]

\* the call is counted; the first successful Body() is remembered
AfterCall(r, b) ==
    [b.r EXCEPT !.calls = r.calls + 1,
                !.succeeded = r.succeeded \/ b.err = "nil",
                !.first = IF ~r.succeeded /\ b.err = "nil" THEN b.data ELSE r.first]

\* resp.Body()
RespBody(readOk) ==
    /\ response.calls < MaxBodyCalls
    /\ LET b == Body(response, readOk)
       IN  /\ response' = AfterCall(response, b)
           /\ ev' = ResponseEv("Body", response, b, b.data)
    /\ UNCHANGED <<resiliencyVars, async, builder>>

\* resp.BodyString(): Body(), then string(body)
RespBodyString(readOk) ==
    /\ response.calls < MaxBodyCalls
    /\ LET b == Body(response, readOk)
       IN  /\ response' = AfterCall(response, b)
           /\ ev' = ResponseEv("BodyString", response, b,
                               IF b.err = "nil" THEN StringOf(b.data) ELSE <<>>)
    /\ UNCHANGED <<resiliencyVars, async, builder>>

\* resp.JSON(v): Body(), then json.Unmarshal(body, v)
RespJSON(readOk) ==
    /\ response.calls < MaxBodyCalls
    /\ LET b == Body(response, readOk)
       IN  /\ response' = AfterCall(response, b)
           /\ ev' = ResponseEv("JSON", response,
                               [b EXCEPT !.err =
                                   IF b.err /= "nil" THEN b.err
                                   ELSE IF ValidJSON(b.data) THEN "nil"
                                   ELSE "failed to unmarshal JSON response"],
                               <<>>)
    /\ UNCHANGED <<resiliencyVars, async, builder>>

\* resp.Close(): closes the stream unless the body has been read
RespClose ==
    /\ response.calls < MaxBodyCalls
    /\ response' = [response EXCEPT
                       !.calls = response.calls + 1,
                       !.closed = IF response.hasBody /\ ~response.BodyRead
                                  THEN TRUE ELSE response.closed]
    /\ ev' = [op |-> "Close", wasRead |-> response.succeeded, touched |-> FALSE,
              data |-> <<>>, err |-> "nil", value |-> <<>>]
    /\ UNCHANGED <<resiliencyVars, async, builder>>

InitResponse ==
    /\ \E content \in Bodies, hasBody \in BOOLEAN :
          response = NewResponse(content, hasBody)
    /\ now = 0
    /\ cb = Absent /\ cbCalls = Absent /\ cbHist = Absent
    /\ bh = Absent /\ bhCalls = Absent
    /\ rl = Absent /\ rlCalls = Absent /\ rlHist = Absent
    /\ policy = Absent /\ chain = Absent /\ send = Absent
    /\ async = Absent /\ builder = Absent
    /\ ev = [op |-> "none", wasRead |-> FALSE, touched |-> FALSE,
             data |-> <<>>, err |-> "nil", value |-> <<>>]

NextResponse ==
    \/ \E readOk \in BOOLEAN : RespBody(readOk)
    \/ \E readOk \in BOOLEAN : RespBodyString(readOk)
    \/ \E readOk \in BOOLEAN : RespJSON(readOk)
    \/ RespClose

SpecResponse == InitResponse /\ [][NextResponse]_vars

----------------------------------------------------------------------------
(* The async helpers: one call of ExecuteBatch, ExecuteConcurrent or FanOut. *)
(* Each request gets a goroutine that calls client.Send and sends the result *)
(* on a channel buffered for len(requests) results.  For the first two a     *)
(* goroutine closes the channel after wg.Wait() and the caller ranges over   *)
(* the channel; FanOut receives from it itself.                               *)

\* the requests of a call: their indices in the list
RequestsOf(a) == 1..a.n

\* the state of a call that has not started its goroutines yet
\* pc[i]      : where the goroutine of request i is
\* semaphore  : the slots taken in ExecuteConcurrent's semaphore channel
\* wg         : the WaitGroup counter
\* resultChan : the results in the channel's buffer, oldest first
\* closed     : the channel has been closed
\* received   : the results the reader of the channel has got, in order
\* main       : where the caller (the FanOut loop, or the reader) is
\* completed  : the requests in the order their results were sent (observation)
NewAsyncCall(fn, n, maxConcurrency) ==
    [ fn |-> fn, n |-> n, maxConcurrency |-> maxConcurrency,
      pc |-> [i \in 1..n |-> "notStarted"],
      semaphore |-> 0, wg |-> 0,
      resultChan |-> <<>>, closed |-> FALSE,
      received |-> <<>>, main |-> "call", returned |-> <<>>,
      completed |-> <<>> ]

\* interfaces.AsyncResult{Request: request, Response: resp, Error: err}
AsyncResult(request, failed) == [Request |-> request, failed |-> failed]

\* the call itself: make the channels, wg.Add(1) and go func for every
\* request, then (ExecuteBatch, ExecuteConcurrent) the goroutine that closes
\* the channel.  make(chan struct{}, maxConcurrency) panics on a negative size.
AsyncCall ==
    /\ async.main = "call"
    /\ async' = IF async.fn = "ExecuteConcurrent" /\ async.maxConcurrency < 0
                THEN [async EXCEPT !.main = "panicked"]
                ELSE [async EXCEPT !.pc = [i \in 1..async.n |-> "started"],
                                   !.wg = IF async.fn = "FanOut" THEN 0 ELSE async.n,
                                   !.main = "receiving"]
    /\ UNCHANGED <<resiliencyVars, response, builder, ev>>

\* faulty variant: the send on the semaphore never blocks
AsyncAcquireUnbounded(i) ==
    /\ async.fn = "ExecuteConcurrent"
    /\ async.pc[i] = "started"
    /\ async' = [async EXCEPT !.pc[i] = "acquired",
                              !.semaphore = async.semaphore + 1]
    /\ UNCHANGED <<resiliencyVars, response, builder, ev>>

\* ExecuteConcurrent, goroutine of request i: semaphore <- struct{}{}; a send
\* on a channel of capacity 0 needs a receiver, and there is none
AsyncAcquire(i) ==
    /\ async.fn = "ExecuteConcurrent"
    /\ async.pc[i] = "started"
    /\ async.semaphore < async.maxConcurrency
    /\ async' = [async EXCEPT !.pc[i] = "acquired",
                              !.semaphore = async.semaphore + 1]
    /\ UNCHANGED <<resiliencyVars, response, builder, ev>>

\* goroutine of request i: client.Send(request), then the result is sent on
\* the channel (its buffer holds len(requests) results, so the send goes through)
AsyncSend(i, failed) ==
    /\ async.pc[i] = IF async.fn = "ExecuteConcurrent" THEN "acquired" ELSE "started"
    /\ Len(async.resultChan) < async.n
    /\ async' = [async EXCEPT
                    !.pc[i] = "sent",
                    !.resultChan = Append(async.resultChan, AsyncResult(i, failed)),
                    !.completed = Append(async.completed, i)]
    /\ UNCHANGED <<resiliencyVars, response, builder, ev>>

\* goroutine of request i returns: the deferred <-semaphore (ExecuteConcurrent)
\* and the deferred wg.Done() (ExecuteBatch, ExecuteConcurrent)
AsyncExit(i) ==
    /\ async.pc[i] = "sent"
    /\ async' = [async EXCEPT
                    !.pc[i] = "exited",
                    !.semaphore = IF async.fn = "ExecuteConcurrent"
                                  THEN async.semaphore - 1 ELSE async.semaphore,
                    !.wg = IF async.fn = "FanOut" THEN async.wg ELSE async.wg - 1]
    /\ UNCHANGED <<resiliencyVars, response, builder, ev>>

\* the closing goroutine: wg.Wait(); close(resultChan)
AsyncClose ==
    /\ async.fn \in {"ExecuteBatch", "ExecuteConcurrent"}
    /\ async.main \in {"receiving", "rangeEnded"}
    /\ ~async.closed
    /\ async.wg = 0
    /\ async' = [async EXCEPT !.closed = TRUE]
    /\ UNCHANGED <<resiliencyVars, response, builder, ev>>

\* the reader of the channel ExecuteBatch / ExecuteConcurrent returned:
\* for result := range resultChan
AsyncReceive ==
    /\ async.fn \in {"ExecuteBatch", "ExecuteConcurrent"}
    /\ async.main = "receiving"
    /\ \/ /\ async.resultChan /= <<>>
          /\ async' = [async EXCEPT
                          !.received = Append(async.received, Head(async.resultChan)),
                          !.resultChan = Tail(async.resultChan)]
       \/ /\ async.resultChan = <<>> /\ async.closed
          /\ async' = [async EXCEPT !.main = "rangeEnded"]
    /\ UNCHANGED <<resiliencyVars, response, builder, ev>>

\* FanOut, the caller: for i := 0; i < len(requests); i++ { result :=
\* <-results; if result.Error == nil { return result } }, and after the loop
\* return <-results
FanOutReceive ==
    /\ async.fn = "FanOut"
    /\ async.main = "receiving"
    /\ async.resultChan /= <<>>
    /\ LET result == Head(async.resultChan)
       IN  async' = [async EXCEPT
                        !.received = Append(async.received, result),
                        !.resultChan = Tail(async.resultChan),
                        !.main = IF Len(async.received) < async.n /\ result.failed
                                 THEN "receiving" ELSE "returned",
                        !.returned = IF Len(async.received) < async.n /\ result.failed
                                     THEN <<>> ELSE <<result>>]
    /\ UNCHANGED <<resiliencyVars, response, builder, ev>>

InitAsync ==
    /\ \E fn \in {"ExecuteBatch", "ExecuteConcurrent", "FanOut"},
          n \in 0..MaxRequests, maxConcurrency \in (0 - 1)..MaxCap :
          /\ fn /= "ExecuteConcurrent" => maxConcurrency = 0
          /\ async = NewAsyncCall(fn, n, maxConcurrency)
    /\ now = 0
    /\ cb = Absent /\ cbCalls = Absent /\ cbHist = Absent
    /\ bh = Absent /\ bhCalls = Absent
    /\ rl = Absent /\ rlCalls = Absent /\ rlHist = Absent
    /\ policy = Absent /\ chain = Absent /\ send = Absent
    /\ response = Absent /\ builder = Absent
    /\ ev = Absent

NextAsync ==
    \/ AsyncCall
    \/ \E i \in RequestsOf(async) : AsyncAcquire(i)
    \/ \E i \in RequestsOf(async), failed \in BOOLEAN : AsyncSend(i, failed)
    \/ \E i \in RequestsOf(async) : AsyncExit(i)
    \/ AsyncClose
    \/ AsyncReceive
    \/ FanOutReceive

\* every goroutine that can take a step is scheduled, and every Send returns
SpecAsync == InitAsync /\ [][NextAsync]_vars /\ WF_vars(NextAsync)

----------------------------------------------------------------------------
(* httpclient.RequestBuilder: a chain of builder calls on one builder,      *)
(* with Build called anywhere in the chain.  Strings are sequences of        *)
(* tokens, so that trimming a prefix or a suffix is computed.                *)

\* the hosts and the path segments the calls are made with
Hosts ==
    {<<>>, <<"example.com">>, <<"http://", "example.com">>,
     <<"https://", "example.com", "/">>}

PathArgs == {<<>>, <<"api">>, <<"/", "v1", "/">>}

\* the default timeout of NewBuilder, in seconds
DefaultTimeout == 30

HeaderKeys == {"Content-Type", "Accept", "Authorization", "X-Id"}

ParamKeys == {"key"}

NoValues(keys) == [k \in keys |-> <<>>]

NewBuilder ==
    [scheme |-> "https", host |-> <<>>, paths |-> <<>>,
     queryParams |-> NoValues(ParamKeys), headers |-> NoValues(HeaderKeys),
     body |-> "nil", method |-> "", timeout |-> DefaultTimeout,
     ctx |-> "background", client |-> "nil", err |-> "nil"]

TrimPrefix(s, prefix) == IF s /= <<>> /\ Head(s) = prefix THEN Tail(s) ELSE s

TrimSuffix(s, suffix) ==
    IF s /= <<>> /\ s[Len(s)] = suffix THEN SubSeq(s, 1, Len(s) - 1) ELSE s

RECURSIVE Trim(_, _)
Trim(s, cut) ==
    IF s /= <<>> /\ Head(s) = cut THEN Trim(Tail(s), cut)
    ELSE IF s /= <<>> /\ s[Len(s)] = cut THEN Trim(SubSeq(s, 1, Len(s) - 1), cut)
    ELSE s

Host(rb, host) ==
    IF rb.err /= "nil" THEN rb
    ELSE IF host = <<>> THEN [rb EXCEPT !.err = "host cannot be empty"]
    ELSE [rb EXCEPT !.host = TrimSuffix(TrimPrefix(TrimPrefix(host, "http://"),
                                                   "https://"), "/")]

Scheme(rb, scheme) ==
    IF rb.err /= "nil" THEN rb
    ELSE IF scheme /= "http" /\ scheme /= "https"
    THEN [rb EXCEPT !.err = "scheme must be 'http' or 'https'"]
    ELSE [rb EXCEPT !.scheme = scheme]

AddPath(rb, path) ==
    IF rb.err /= "nil" THEN rb
    ELSE IF path = <<>> THEN rb
    ELSE IF Trim(path, "/") /= <<>>
    THEN [rb EXCEPT !.paths = Append(rb.paths, Trim(path, "/"))]
    ELSE rb

Path(rb, path) ==
    IF rb.err /= "nil" THEN rb
    ELSE AddPath([rb EXCEPT !.paths = <<>>], path)

QueryParam(rb, key, value) ==
    IF rb.err /= "nil" THEN rb
    ELSE [rb EXCEPT !.queryParams[key] = Append(rb.queryParams[key], value)]

\* params is the set of keys of the map; every key is mapped to value
QueryParams(rb, params, value) ==
    IF rb.err /= "nil" THEN rb
    ELSE [rb EXCEPT !.queryParams =
              [k \in ParamKeys |-> IF k \in params THEN <<value>> ELSE <<>>]]

Header(rb, key, value) ==
    IF rb.err /= "nil" THEN rb
    ELSE [rb EXCEPT !.headers[key] = Append(rb.headers[key], value)]

Headers(rb, headers, value) ==
    IF rb.err /= "nil" THEN rb
    ELSE [rb EXCEPT !.headers =
              [k \in HeaderKeys |-> IF k \in headers THEN <<value>> ELSE <<>>]]

ContentType(rb, contentType) == Header(rb, "Content-Type", contentType)

Accept(rb, accept) == Header(rb, "Accept", accept)

Authorization(rb, token) == Header(rb, "Authorization", token)

BearerToken(rb, token) == Header(rb, "Authorization", <<"Bearer ", token>>)

BuilderBody(rb, body) ==
    IF rb.err /= "nil" THEN rb ELSE [rb EXCEPT !.body = body]

BodyBytes(rb, data) == BuilderBody(rb, <<"bytes.Reader", data>>)

BuilderBodyString(rb, data) == BuilderBody(rb, <<"strings.Reader", data>>)

\* marshalable: whether json.Marshal(v) succeeds
BuilderJSON(rb, v, marshalable) ==
    IF rb.err /= "nil" THEN rb
    ELSE IF ~marshalable THEN [rb EXCEPT !.err = "failed to marshal JSON body"]
    ELSE BodyBytes(ContentType(rb, "application/json"), v)

Timeout(rb, timeout) ==
    IF rb.err /= "nil" THEN rb
    ELSE IF timeout <= 0 THEN [rb EXCEPT !.err = "timeout must be positive"]
    ELSE [rb EXCEPT !.timeout = timeout]

WithContext(rb, ctx) ==
    IF rb.err /= "nil" THEN rb
    ELSE IF ctx = "nil" THEN [rb EXCEPT !.err = "context cannot be nil"]
    ELSE [rb EXCEPT !.ctx = ctx]

Client(rb, client) ==
    IF rb.err /= "nil" THEN rb ELSE [rb EXCEPT !.client = client]

Method(rb, method) == [rb EXCEPT !.method = method]

GET(rb) == [rb EXCEPT !.method = "GET"]

POST(rb) == [rb EXCEPT !.method = "POST"]

PUT(rb) == [rb EXCEPT !.method = "PUT"]

PATCH(rb) == [rb EXCEPT !.method = "PATCH"]

DELETE(rb) == [rb EXCEPT !.method = "DELETE"]

\* the URL, as its parts, or the error
buildURL(rb) ==
    IF rb.host = <<>>
    THEN [url |-> <<>>, err |-> "host is required"]
    ELSE [url |-> <<rb.scheme, rb.host, rb.paths, rb.queryParams>>, err |-> "nil"]

Build(rb) ==
    IF rb.err /= "nil" THEN [request |-> "nil", err |-> rb.err]
    ELSE IF rb.method = "" THEN [request |-> "nil", err |-> "HTTP method is required"]
    ELSE IF buildURL(rb).err /= "nil"
    THEN [request |-> "nil", err |-> "failed to build URL: host is required"]
    ELSE IF rb.method = "BAD METHOD"   \* http.NewRequestWithContext: not a token
    THEN [request |-> "nil", err |-> "failed to create request"]
    ELSE [request |-> [method |-> rb.method, url |-> buildURL(rb).url,
                       Header |-> rb.headers, body |-> rb.body, ctx |-> rb.ctx,
                       timeout |-> rb.timeout],
          err |-> "nil"]

\* what the builder has accumulated: every field but err
Configuration(rb) == [f \in DOMAIN rb \ {"err"} |-> rb[f]]

\* A builder call that leaves the builder as rb.  The state of a chain is
\* the builder, the number of calls made, and, once a call has recorded an
\* error, that error and the configuration at that call.
Chained(op, rb) ==
    /\ builder.calls < MaxBuilderCalls
    /\ builder' = [rb |-> rb,
                   calls |-> builder.calls + 1,
                   firstErr |-> IF builder.firstErr = "nil" THEN rb.err
                                ELSE builder.firstErr,
                   atErr |-> IF builder.firstErr = "nil" /\ rb.err /= "nil"
                             THEN Configuration(rb) ELSE builder.atErr]
    /\ ev' = [op |-> op, recorded |-> builder.rb.err /= "nil",
              request |-> "nil", err |-> "nil"]
    /\ UNCHANGED <<resiliencyVars, response, async>>

BuilderBuild ==
    /\ builder.calls < MaxBuilderCalls
    /\ builder' = [builder EXCEPT !.calls = builder.calls + 1]
    /\ ev' = [op |-> "Build", recorded |-> builder.rb.err /= "nil",
              request |-> Build(builder.rb).request, err |-> Build(builder.rb).err]
    /\ UNCHANGED <<resiliencyVars, response, async>>

InitBuilder ==
    /\ builder = [rb |-> NewBuilder, calls |-> 0, firstErr |-> "nil", atErr |-> Absent]
    /\ now = 0
    /\ cb = Absent /\ cbCalls = Absent /\ cbHist = Absent
    /\ bh = Absent /\ bhCalls = Absent
    /\ rl = Absent /\ rlCalls = Absent /\ rlHist = Absent
    /\ policy = Absent /\ chain = Absent /\ send = Absent
    /\ response = Absent /\ async = Absent
    /\ ev = [op |-> "none", recorded |-> FALSE, request |-> "nil", err |-> "nil"]

NextBuilder ==
    \/ \E host \in Hosts : Chained("Host", Host(builder.rb, host))
    \/ \E scheme \in {"http", "https", "ftp"} :
          Chained("Scheme", Scheme(builder.rb, scheme))
    \/ \E path \in PathArgs : Chained("AddPath", AddPath(builder.rb, path))
    \/ \E path \in PathArgs : Chained("Path", Path(builder.rb, path))
    \/ Chained("QueryParam", QueryParam(builder.rb, "key", "value"))
    \/ \E params \in SUBSET ParamKeys :
          Chained("QueryParams", QueryParams(builder.rb, params, "value"))
    \/ Chained("Header", Header(builder.rb, "X-Id", "value"))
    \/ \E headers \in {{}, {"Accept"}} :
          Chained("Headers", Headers(builder.rb, headers, "value"))
    \/ Chained("ContentType", ContentType(builder.rb, "text/plain"))
    \/ Chained("Accept", Accept(builder.rb, "text/plain"))
    \/ Chained("Authorization", Authorization(builder.rb, "token"))
    \/ Chained("BearerToken", BearerToken(builder.rb, "token"))
    \/ Chained("Body", BuilderBody(builder.rb, "reader"))
    \/ Chained("BodyBytes", BodyBytes(builder.rb, "data"))
    \/ Chained("BodyString", BuilderBodyString(builder.rb, "data"))
    \/ \E marshalable \in BOOLEAN :
          Chained("JSON", BuilderJSON(builder.rb, "v", marshalable))
    \/ \E timeout \in (0 - 1)..MaxBuilderTimeout :
          Chained("Timeout", Timeout(builder.rb, timeout))
    \/ \E ctx \in {"nil", "ctx"} : Chained("WithContext", WithContext(builder.rb, ctx))
    \/ Chained("Client", Client(builder.rb, "custom"))
    \/ \E method \in {"", "OPTIONS", "BAD METHOD"} :
          Chained("Method", Method(builder.rb, method))
    \/ Chained("GET", GET(builder.rb))
    \/ Chained("POST", POST(builder.rb))
    \/ Chained("PUT", PUT(builder.rb))
    \/ Chained("PATCH", PATCH(builder.rb))
    \/ Chained("DELETE", DELETE(builder.rb))
    \/ BuilderBuild

SpecBuilder == InitBuilder /\ [][NextBuilder]_vars

----------------------------------------------------------------------------
(* Properties of the circuit breaker (SpecCB) *)

\* C1: while Closed, recording a result opens the breaker exactly when the
\* result is the failureThreshold-th consecutive failure (no success in
\* between), never earlier; a success recorded while Closed leaves the breaker
\* Closed with failureCount = 0.
C1_OpensExactlyAtThreshold ==
    (ev.op = "record" /\ ev.pre = "Closed") =>
        /\ cb.state \in {"Closed", "Open"}
        /\ (cb.state = "Open") <=> (ev.failed /\ ev.n = cb.failureThreshold)
        /\ (ev.failed /\ cb.state = "Closed") =>
                (ev.n < cb.failureThreshold /\ cb.failureCount = ev.n)
        /\ ~ev.failed => (cb.state = "Closed" /\ cb.failureCount = 0)

\* a breaker with threshold 2 opened by its second consecutive failure
C1_Witness ==
    /\ ev.op = "record" /\ ev.pre = "Closed" /\ ev.failed
    /\ cb.failureThreshold = 2 /\ ev.n = 2 /\ cb.state = "Open"
    /\ cb.lastSuccessTime /= ZeroTime

\* C2 (as claimed): for a breaker that a recorded failure opened at time t, an
\* admission check before openTimeout has elapsed since t is rejected, and an
\* admission check after openTimeout has elapsed since t is admitted and moves
\* the breaker to HalfOpen, whatever calls in flight record meanwhile.
C2_OpenPeriodCountsFromOpening ==
    (ev.op = "admit" /\ ev.pre = "Open" /\ cbHist.openedBy = "failure") =>
        /\ ev.sinceOpen < cb.timeout => ~ev.ok
        /\ ev.sinceOpen > cb.timeout => (ev.ok /\ cb.state = "HalfOpen")

\* C3: a failure recorded while HalfOpen leaves the breaker Open with
\* failureCount = 0 and successCount = 0, whatever successes were counted in
\* that half-open window.
C3_HalfOpenFailureReopens ==
    (ev.op = "record" /\ ev.pre = "HalfOpen" /\ ev.failed) =>
        (cb.state = "Open" /\ cb.failureCount = 0 /\ cb.successCount = 0)

\* a failure recorded in a half-open window that had already counted a success
C3_Witness ==
    /\ ev.op = "record" /\ ev.pre = "HalfOpen" /\ ev.failed
    /\ ev.n >= 1
    /\ cb.state = "Open"

\* C4: a success recorded while HalfOpen closes the breaker exactly when it is
\* the successThreshold-th success of that half-open window (successThreshold
\* is 2); with fewer the breaker stays HalfOpen, and on closing failureCount
\* and successCount are both 0.
C4_HalfOpenClosesAtSuccessThreshold ==
    /\ cb.successThreshold = 2
    /\ (ev.op = "record" /\ ev.pre = "HalfOpen" /\ ~ev.failed) =>
        /\ cb.state \in {"HalfOpen", "Closed"}
        /\ (cb.state = "Closed") <=> (ev.n = cb.successThreshold)
        /\ cb.state = "HalfOpen" =>
                (ev.n < cb.successThreshold /\ cb.successCount = ev.n)
        /\ cb.state = "Closed" => (cb.failureCount = 0 /\ cb.successCount = 0)

\* the second success of a half-open window closed the breaker
C4_Witness ==
    /\ ev.op = "record" /\ ev.pre = "HalfOpen" /\ ~ev.failed
    /\ ev.n = 2 /\ cb.state = "Closed"

\* C21 (as claimed): the state changes only by Closed->Open (a failure
\* recorded), Open->HalfOpen (an admission check), HalfOpen->Closed (a success
\* recorded) and HalfOpen->Open (a failure recorded); no other operation of
\* the public interface changes it.
C21_OnlyFourTransitions ==
    (ev.op /= "none" /\ ev.pre /= cb.state) =>
        \/ ev.pre = "Closed"   /\ cb.state = "Open"     /\ ev.op = "record" /\ ev.failed
        \/ ev.pre = "Open"     /\ cb.state = "HalfOpen" /\ ev.op = "admit"
        \/ ev.pre = "HalfOpen" /\ cb.state = "Closed"   /\ ev.op = "record" /\ ~ev.failed
        \/ ev.pre = "HalfOpen" /\ cb.state = "Open"     /\ ev.op = "record" /\ ev.failed

\* C21 (amended): Execute changes the state only by those four transitions;
\* besides them Reset sets it to Closed and Trip sets it to Open, from any
\* state.
C21_FourTransitionsAndManualOnes ==
    /\ ev.op = "reset" => cb.state = "Closed"
    /\ ev.op = "trip" => cb.state = "Open"
    /\ (ev.op \in {"admit", "record"} /\ ev.pre /= cb.state) =>
        \/ ev.pre = "Closed"   /\ cb.state = "Open"     /\ ev.op = "record" /\ ev.failed
        \/ ev.pre = "Open"     /\ cb.state = "HalfOpen" /\ ev.op = "admit"
        \/ ev.pre = "HalfOpen" /\ cb.state = "Closed"   /\ ev.op = "record" /\ ~ev.failed
        \/ ev.pre = "HalfOpen" /\ cb.state = "Open"     /\ ev.op = "record" /\ ev.failed

\* Reset has closed a breaker that a recorded failure had opened, with a call
\* admitted before that still in flight
C21_Witness ==
    /\ ev.op = "reset"
    /\ ev.pre = "Open" /\ cb.state = "Closed"
    /\ InFlight /= {}

\* C22: an Execute that is not admitted (breaker Open, timeout not passed)
\* returns without invoking fn and leaves every field of the breaker as it
\* was, so a rejection does not move the end of the open period.
C22_RejectionChangesNothing ==
    [][ \A p \in Callers :
          (CBAdmit(p) /\ ~ev'.ok) =>
              /\ cb.state = "Open" /\ ~TimeoutPassed(cb, now)
              /\ cb' = cb
              /\ cbCalls'[p] = "idle"
              /\ InFlight' = InFlight ]_vars

\* a call has been rejected some time after the breaker opened, with the open
\* period still counted from the last failure
C22_Witness ==
    /\ ev.op = "admit" /\ ev.pre = "Open" /\ ~ev.ok
    /\ ev.sinceOpen >= 1
    /\ cb.lastFailureTime = cbHist.openedAt
    /\ cb.timeout = 2

\* C23 (as claimed): on an Open breaker with no failure recorded since it
\* opened, an admission check made when at least timeout has passed since the
\* last failure, exactly timeout included, is admitted and makes the breaker
\* HalfOpen.
C23_AdmittedAtTimeout ==
    ( /\ ev.op = "admit" /\ ev.pre = "Open"
      /\ cb.lastFailureTime = cbHist.openedAt
      /\ ev.sinceOpen >= cb.timeout )
    => (ev.ok /\ cb.state = "HalfOpen")

\* C23 (amended): such an admission check is admitted, making the breaker
\* HalfOpen, when more than timeout has passed since the last failure; when
\* exactly timeout (or less) has passed it is rejected and the breaker stays
\* Open.
C23_AdmittedAfterTimeout ==
    ( /\ ev.op = "admit" /\ ev.pre = "Open"
      /\ cb.lastFailureTime = cbHist.openedAt )
    => /\ ev.sinceOpen > cb.timeout => (ev.ok /\ cb.state = "HalfOpen")
       /\ ev.sinceOpen <= cb.timeout => (~ev.ok /\ cb.state = "Open")

\* a call admitted as the half-open probe one tick after the timeout
C23_Witness ==
    /\ ev.op = "admit" /\ ev.pre = "Open" /\ ev.ok
    /\ cb.lastFailureTime = cbHist.openedAt
    /\ ev.sinceOpen = cb.timeout + 1
    /\ cb.state = "HalfOpen"

C34_CountersWithinThresholds ==
    /\ cb.state \in {"Closed", "Open"} => cb.successCount = 0
    /\ cb.state = "HalfOpen" =>
          0 <= cb.successCount /\ cb.successCount < cb.successThreshold
    /\ (cb.state = "Closed" /\ cb.failureThreshold >= 1) =>
          0 <= cb.failureCount /\ cb.failureCount < cb.failureThreshold

\* a half-open breaker one success short of closing, with calls in flight
C34_Witness ==
    /\ cb.state = "HalfOpen"
    /\ cb.successCount = cb.successThreshold - 1
    /\ cb.successCount > 0
    /\ InFlight /= {}

\* C35: a success recorded while the breaker is HalfOpen by a call that was
\* not admitted in the current half-open window (it was admitted while the
\* breaker was Closed, or in an earlier window) does not count: successCount
\* and the state stay as they were.
C35_StaleSuccessDoesNotCount ==
    [][ \A p \in Callers :
          ( /\ cb.state = "HalfOpen" /\ p \notin cbHist.fresh
            /\ cbCalls[p] = "inflight" /\ cbCalls'[p] = "idle"
            /\ ev'.op = "record" /\ ~ev'.failed )
          => (cb'.successCount = cb.successCount /\ cb'.state = cb.state) ]_vars

----------------------------------------------------------------------------
(* Properties of the bulkhead (SpecBH) *)

\* C6 (as claimed): at most maxConcurrency invocations of fn run at the same
\* time, and an Execute call that arrives while maxConcurrency calls hold a
\* slot returns the capacity error at once, without running fn.
C6_FullBulkheadReturnsCapacityError ==
    /\ Cardinality(RunningFn) <= bh.maxConcurrency
    /\ (ev.op = "bhSelect" /\ ev.full) =>
          /\ bhCalls[ev.caller].pc = "idle"
          /\ bhCalls[ev.caller].result = "capacity"

\* C6 (amended): at most maxConcurrency invocations of fn run at the same
\* time, and an Execute call that arrives while maxConcurrency calls hold a
\* slot returns at once without running fn and without acquiring a slot: with
\* the capacity error when its context is not done, with the context's error
\* when its context is already done.
C6_FullBulkheadRejectsAtOnce ==
    /\ Cardinality(RunningFn) <= bh.maxConcurrency
    /\ bh.semaphore <= bh.maxConcurrency
    /\ (ev.op = "bhSelect" /\ ev.full) =>
          /\ bhCalls[ev.caller].pc = "idle"
          /\ bhCalls[ev.caller].result =
                (IF ev.ctxDone THEN "ctxErr" ELSE "capacity")

\* maxConcurrency = 2, two calls running fn, the third rejected for capacity
C6_Witness ==
    /\ ev.op = "bhSelect" /\ ev.full /\ ~ev.ctxDone
    /\ bh.maxConcurrency = 2
    /\ Cardinality(RunningFn) = 2
    /\ bhCalls[ev.caller].result = "capacity"

\* C7 (as claimed): in every reachable state 0 <= activeCount <= maxConcurrency.
C7_ActiveCountInRange ==
    0 <= ActiveRequests /\ ActiveRequests <= bh.maxConcurrency

\* the calls that hold a slot / that activeCount counts
HoldingSlot == {p \in DOMAIN bhCalls : bhCalls[p].pc \in {"acquired", "running", "exiting"}}
Counted == {p \in DOMAIN bhCalls : bhCalls[p].pc \in {"running", "exiting", "released"}}

\* C19: the slots taken are exactly those of the Execute calls that acquired
\* one and have not yet run their deferred release, and activeCount counts
\* exactly the calls between their increment and their decrement, whichever
\* way fn ended (return, error, panic); so once every Execute call has
\* finished every slot is free, activeCount is 0, and a later call is not
\* rejected for capacity (it acquires a slot if its context is not done).
C19_SlotsReleasedOnEveryExit ==
    /\ bh.semaphore = Cardinality(HoldingSlot)
    /\ bh.activeCount = Cardinality(Counted)
    /\ (\A p \in BhCallers : bhCalls[p].pc = "idle") =>
          /\ bh.semaphore = 0
          /\ ActiveRequests = 0
          /\ SelectCases(bh, FALSE) = {"acquire"}
          /\ "default" \notin SelectCases(bh, TRUE)

\* three calls have finished, one by a normal return, one with an error, one
\* by a panic, and the bulkhead is empty again
C19_Witness ==
    /\ \A p \in BhCallers : bhCalls[p].pc = "idle"
    /\ {"ok", "err", "panic"} \subseteq {bhCalls[p].result : p \in BhCallers}
    /\ bh.semaphore = 0 /\ ActiveRequests = 0
    /\ ev.op = "bhDecrement"

\* C31: an Execute call made when no slot is free returns without running fn
\* and leaves activeCount and the slots as they were: with the capacity error
\* when its context is not done, with the context's error when it is done.
C31_NoFreeSlotRejects ==
    [][ (ev'.op = "bhSelect" /\ ev'.full) =>
            /\ bh'.activeCount = bh.activeCount
            /\ bh'.semaphore = bh.semaphore
            /\ bhCalls'[ev'.caller].pc = "idle"
            /\ bhCalls'[ev'.caller].result =
                  (IF ev'.ctxDone THEN "ctxErr" ELSE "capacity") ]_vars

\* every slot taken, the caller's context done: the context's error
C31_Witness ==
    /\ ev.op = "bhSelect" /\ ev.full /\ ev.ctxDone
    /\ bh.semaphore = bh.maxConcurrency
    /\ bhCalls[ev.caller].result = "ctxErr"

\* C38: an Execute call whose context is already cancelled does not acquire a
\* slot and does not run fn, whether or not a slot is free.
C38_CancelledNeverAcquires ==
    (ev.op = "bhSelect" /\ ev.ctxDone) =>
        /\ ev.chose /= "acquire"
        /\ bhCalls[ev.caller].pc = "idle"
        /\ bhCalls[ev.caller].result = "ctxErr"

----------------------------------------------------------------------------
(* Properties of the rate limiter (SpecRL) *)

\* C8: in every reachable state of the rate limiter, after any sequence of
\* Allow, Wait and GetMetrics calls at non-decreasing times, 0 <= tokens <= burst.
C8_TokensInRange ==
    0 <= rl.tokens /\ rl.tokens <= rl.burst * OneToken

\* after an admission emptied part of the bucket, a refill over a long enough
\* gap was cut back to burst
C8_Witness ==
    /\ ev.op \in {"rlAllow", "rlWaitTry", "rlGetMetrics"}
    /\ ev.raw > rl.burst * OneToken
    /\ ev.before < rl.burst * OneToken
    /\ AdmittedSince(0) >= 1
    /\ rl.tokens = rl.burst * OneToken

\* C9: over every interval [s, now] the number of calls admitted (Allow
\* returning true or Wait returning nil), by any number of concurrent
\* callers, is at most burst + rate * (now - s); with now = s, at most burst.
C9_AdmissionsBounded ==
    \A s \in 0..now :
        AdmittedSince(s) * OneToken <= rl.burst * OneToken + rl.rate * (now - s)

\* more than burst calls admitted over an interval of positive length, the
\* bound being met exactly
C9_Witness ==
    \E s \in 0..now :
        /\ s < now
        /\ AdmittedSince(s) > rl.burst
        /\ rl.burst >= 1
        /\ AdmittedSince(s) * OneToken = rl.burst * OneToken + rl.rate * (now - s)

\* the number of calls admitted at tick s before the one ev reports
AdmittedBefore(s) ==
    IF s = ev.at /\ ev.ok THEN rlHist[s] - 1 ELSE rlHist[s]

\* C14: once burst calls have been admitted at one instant s, a further Wait
\* call returns nil only after a whole token has accrued, rate * (now - s) >=
\* 1 token (1/rate seconds from the empty bucket); it is admitted only on a
\* bucket that, refilled, holds at least one whole token.
C14_WaitNeedsWholeToken ==
    (ev.op = "rlWaitTry" /\ ev.ok) =>
        /\ ev.raw >= OneToken
        /\ \A s \in 0..ev.at :
              AdmittedBefore(s) >= rl.burst => rl.rate * (ev.at - s) >= OneToken

\* rate 1/s: after burst calls admitted at one instant, a Wait call that slept
\* through an instant with half a token is admitted exactly one second later
C14_Witness ==
    /\ ev.op = "rlWaitTry" /\ ev.ok /\ ev.slept
    /\ rl.rate = 1 /\ rl.burst >= 1
    /\ \E s \in 0..ev.at :
          /\ rlHist[s] = rl.burst
          /\ rl.rate * (ev.at - s) = OneToken
          /\ ev.at - s >= 2

\* what the bucket held, refilled and capped, when the call ev reports decided
Available == IF ev.raw > rl.burst * OneToken THEN rl.burst * OneToken ELSE ev.raw

\* C20: Allow refills and decides in one step: it returns true exactly when
\* the refilled bucket holds a whole token, and takes that token; tokens never
\* goes below 0; and when it took the only whole token, a concurrent Allow at
\* the same instant returns false.
C20_AllowIsAtomic ==
    /\ rl.tokens >= 0
    /\ ev.op \in {"rlAllow", "rlWaitTry"} =>
          /\ ev.ok <=> Available >= OneToken
          /\ rl.tokens = IF ev.ok THEN Available - OneToken ELSE Available
          /\ (ev.ok /\ Available < 2 * OneToken) => ~Allow(rl, ev.at).ok

\* of the Allow calls made at one instant with exactly one token in the
\* bucket, one was admitted and a later one refused
C20_Witness ==
    /\ ev.op = "rlAllow" /\ ~ev.ok
    /\ rlHist[ev.at] = 1 /\ rl.tokens = 0
    /\ rl.burst = 2 /\ ev.at > 0

\* C39: for every rate > 0 and every burst (0 included), with other callers
\* of Allow and Wait and under fair scheduling, every Wait call whose context
\* is never cancelled eventually returns nil.
C39_WaitReturns ==
    \A p \in RlCallers :
        (rlCalls[p].pc = "loop")
            ~> ( \/ rlCalls[p].pc = "idle" /\ rlCalls[p].result = "nil"
                 \/ rlCalls[p].ctxDone )

----------------------------------------------------------------------------
(* Properties of the chain (SpecChain) *)

\* the policy's backoff delays, timer overrun included, all stay within the
\* breaker's openTimeout
TimeoutCoversBackoff ==
    \A k \in 0..policy.maxAttempts :
        \A delay \in GetDelay(policy, k) : delay + MaxSleepOverrun <= cb.timeout

\* C5: in a chain retry(maxAttempts = N) around circuitBreaker(failureThreshold
\* = F), F < N, openTimeout longer than every backoff delay, over a transport
\* that fails every call with a retryable error, one Send (context not
\* cancelled) invokes the base transport exactly F times: the F-th failure
\* opens the breaker, attempt F+1 is rejected by the breaker without a network
\* attempt, the retry layer does not retry the rejection, and Send returns the
\* circuit-open error with no response.
C5_RetryStopsAtOpenCircuit ==
    ( /\ send.pc = "done"
      /\ chain.hasCB
      /\ cb.failureThreshold < policy.maxAttempts
      /\ TimeoutCoversBackoff
      /\ send.allBaseRetryable
      /\ ~send.ctxDone )
    =>
    ( /\ send.baseCalls = cb.failureThreshold
      /\ send.wrappedCalls = cb.failureThreshold + 1
      /\ send.result = [resp |-> NilResp, err |-> CircuitOpenError]
      /\ cb.state = "Open" )

\* Scenario E: retry(3) around circuitBreaker(2) has returned the circuit-open
\* error after two network attempts
C5_Witness ==
    /\ send.pc = "done" /\ chain.hasCB
    /\ policy.maxAttempts = 3 /\ cb.failureThreshold = 2
    /\ TimeoutCoversBackoff
    /\ send.allBaseRetryable /\ ~send.ctxDone
    /\ send.baseCalls = 2
    /\ send.result.err = CircuitOpenError

C36_ResponseOrError ==
    (send.pc = "done" /\ chain.hasRetry) =>
        (send.result.resp /= NilResp \/ send.result.err /= NilErr)

\* C37: after the MaxAttempts()-th attempt has failed the RetryDecorator does
\* not wait for a backoff again, and Send returns the error of that attempt,
\* also when the context is cancelled after that attempt has failed.
C37_NoBackoffAfterFinalAttempt ==
    chain.hasRetry =>
        /\ send.pc = "backoff" => send.attempt + 1 < MaxAttempts(policy)
        /\ ( /\ send.pc = "done"
             /\ send.wrappedCalls >= 1
             /\ send.wrappedCalls = MaxAttempts(policy)
             /\ send.lastWrappedErr /= NilErr )
           => send.result.err = send.lastWrappedErr

----------------------------------------------------------------------------
(* Properties of the retry policy (SpecPolicy) *)

\* an error with an underlying cause and no HTTP status: a transport-level failure
TransportFailure(e) ==
    e.type = "HTTPError" /\ e.cause /= "none" /\ e.StatusCode = 0

\* an error that carries only an HTTP status
StatusOnly(e) ==
    e.type = "HTTPError" /\ e.cause = "none" /\ e.StatusCode /= 0

\* C11 (as claimed): ShouldRetry(err, attempt) is false whenever attempt >=
\* maxAttempts, and true whenever attempt < maxAttempts and err is a
\* transport-level failure: a timeout or any other network error (a cause and
\* no HTTP status, such as a refused connection).
C11_TransportFailuresRetried ==
    ev.op = "shouldRetry" =>
        /\ ev.attempt >= policy.maxAttempts => ~ev.result
        /\ (ev.attempt < policy.maxAttempts /\ TransportFailure(ev.err)) => ev.result

\* C12 (as claimed): for an error that carries only an HTTP status and attempt
\* < maxAttempts, the list of retryable status codes decides: true when the
\* status is in the list, false for a 4xx status not in the list, and false
\* for a 5xx status that is not in the list.
C12_ListDecidesStatusErrors ==
    (ev.op = "shouldRetry" /\ StatusOnly(ev.err) /\ ev.attempt < policy.maxAttempts) =>
        /\ ev.err.StatusCode \in policy.retryableErrors => ev.result
        /\ (IsClientError(ev.err) /\ ev.err.StatusCode \notin policy.retryableErrors)
              => ~ev.result
        /\ (IsServerError(ev.err) /\ ev.err.StatusCode \notin policy.retryableErrors)
              => ~ev.result

\* min(maxDelay, initialDelay * multiplier^exponent)
CappedBackoff(rp, exponent) ==
    LET d == rp.initialDelay * Pow(rp.multiplier, exponent)
    IN  IF d > rp.maxDelay THEN rp.maxDelay ELSE d

\* C13 (as claimed): GetDelay(0) = 0, and for 0 <= attempt < maxAttempts,
\* GetDelay(attempt + 1) = min(maxDelay, initialDelay * multiplier^attempt).
C13_DelayIsCappedExponential ==
    ev.op = "getDelay" =>
        /\ ev.attempt = 0 => ev.result = 0
        /\ (1 <= ev.attempt /\ ev.attempt <= policy.maxAttempts) =>
              ev.result = CappedBackoff(policy, ev.attempt - 1)

----------------------------------------------------------------------------
(* Properties of a Send through the full chain (SpecStack) *)

\* C15: a context cancelled while RetryDecorator sleeps in its backoff, or
\* while RateLimiter.Wait waits for a token, ends the sleep or wait: the
\* backoff is left with the error "request cancelled during retry backoff",
\* Wait returns ctx.Err() itself, no further network attempt is made, and the
\* error the Send returns carries the context's cause.
C15_CancellationEndsTheWait ==
    /\ send.cancelledIn = "backoff" =>
          \/ send.pc = "backoff"
          \/ /\ send.pc = "done"
             /\ send.result = [resp |-> NilResp,
                               err |-> CancelledError(send.ctxErr,
                                           "request cancelled during retry backoff")]
             /\ send.baseCalls = send.cancelledBase
    /\ send.cancelledIn = "rlSleeping" =>
          \/ send.pc = "rlSleeping"
          \/ /\ send.waitResult = CtxErr(send.ctxErr)
             /\ send.baseCalls = send.cancelledBase
             /\ send.pc = "done" =>
                   /\ send.result.resp = NilResp
                   /\ send.result.err.type = "HTTPError"
                   /\ send.result.err.cause = send.ctxErr

\* a Send cancelled during the backoff after its second failed attempt (the
\* backoff after the first one has no delay) has returned
C15_Witness ==
    /\ send.pc = "done"
    /\ send.cancelledIn = "backoff"
    /\ send.ctxErr = "canceled"
    /\ send.baseCalls = 2
    /\ send.result.err.cause = "canceled"

\* the stages of a chain, outermost first
StageOrder == <<"retry", "cb", "bh", "rl", "base">>

\* the stages of StageOrder that the chain has
Present(stage) ==
    CASE stage = "retry" -> chain.hasRetry
      [] stage = "cb"    -> chain.hasCB
      [] stage = "bh"    -> chain.hasBH
      [] stage = "rl"    -> chain.hasRL
      [] OTHER           -> TRUE

IsPrefix(s, t) ==
    /\ Len(s) <= Len(t)
    /\ \A i \in 1..Len(s) : s[i] = t[i]

\* C16: for every subset of stages, a Send goes through the stages present in
\* the order retry, circuit breaker, bulkhead, rate limiter, base; a call the
\* breaker rejects leaves the bulkhead and the rate limiter as they were, and
\* a call the bulkhead rejects leaves the rate limiter as it was.
C16_StagesInFixedOrder ==
    /\ chain.client = SelectSeq(StageOrder, Present)
    /\ IsPrefix(send.trace, SelectSeq(StageOrder, Present))
    /\ send.rejectedBy = "cb" =>
          /\ bh = send.snap.bh
          /\ rl = send.snap.rl
          /\ send.trace[Len(send.trace)] = "cb"
    /\ send.rejectedBy = "bh" =>
          /\ rl = send.snap.rl
          /\ send.trace[Len(send.trace)] = "bh"

\* a chain of all four stages whose bulkhead, full, has rejected a call that
\* the breaker had admitted
C16_Witness ==
    /\ chain.client = StageOrder
    /\ send.pc = "done"
    /\ send.rejectedBy = "bh"
    /\ send.trace = <<"retry", "cb", "bh">>
    /\ rl.tokens > 0

\* C17: the breaker counts a failure only for a call that reached the base
\* client and failed there; a rejection by the bulkhead or a cancelled wait of
\* the rate limiter is not counted and cannot open the breaker.
C17_BreakerCountsBaseFailuresOnly ==
    chain.hasCB =>
        /\ send.cbFailures <= send.baseFailures
        /\ cb.failureCount <= send.baseFailures
        /\ cb.state = "Open" => send.baseFailures > 0

\* the Response an error of HTTPClient.Send carries (HTTPError.Response)
ResponseOf(e) ==
    IF e.type = "HTTPError" /\ e.msg = "request returned error status"
    THEN e.StatusCode ELSE NilResp

\* the responses a result hands to the caller: the response itself, or the
\* one its error carries
Handed(r) == IF r.resp /= NilResp \/ ResponseOf(r.err) /= NilResp THEN 1 ELSE 0

\* C18: when a Send has returned, every Response the base client produced
\* during it has been handed to the caller or has had its body closed (no
\* stage of the chain closes a body, so: has been handed to the caller).
C18_NoResponseDropped ==
    send.pc = "done" => send.produced <= Handed(send.result)

\* C24: a Send given a malformed request (nil, or with a nil underlying HTTP
\* request) does not crash: it returns an error and no response, with the
\* breaker, the bulkhead and the rate limiter as they were and nothing sent.
C24_MalformedRequestRejected ==
    send.request /= "wellFormed" =>
        /\ send.pc /= "panicked"
        /\ cb = send.snap.cb /\ bh = send.snap.bh /\ rl = send.snap.rl
        /\ send.produced = 0
        /\ send.pc = "done" =>
              /\ send.result.resp = NilResp
              /\ send.result.err.type = "HTTPError"

\* the running decorator has called the stage below it and has its result
\* (send.cur): the three gates between the return of d.wrapped.Send and their
\* own return, the retry loop from its first attempt on
HasInnerResult(sd) ==
    /\ sd.pc \notin {"start", "done", "panicked"}
    /\ IF Stage(sd) = "retry"
       THEN sd.wrappedCalls > 0 /\ sd.pc \in {"return", "backoff", "loopHead"}
       ELSE Stage(sd) /= "base" /\ sd.pc \in {"return", "bhReleased"}

\* C25: a decorator whose last inner Send returned an error returns that
\* (response, error) pair unchanged (no decorator of the chain builds an error
\* around the error of an inner Send, so there is no wrapped form to allow
\* for); it never returns a nil error or another error in its place.
C25_InnerErrorsPassedOn ==
    [][ ( /\ HasInnerResult(send)
          /\ send.cur.err.type /= "nil"
          /\ send'.depth < send.depth )
        => send'.cur = send.cur ]_vars

\* C32: when the context is already done as the RetryDecorator is about to
\* start an attempt (the first or a later one), Send returns a cancellation
\* error and the wrapped client is not called for that attempt; when the
\* wrapped client returns without an error, Send returns that response at once
\* and makes no further attempt.
C32_CancelledBeforeAttemptSuccessEndsLoop ==
    [][ /\ ( /\ Stage(send) = "retry" /\ send.pc \in {"enter", "loopHead"}
             /\ send.request = "wellFormed"
             /\ RetryLoopRuns(policy, send.attempt) /\ send.ctxDone
             /\ <<send'.pc, send'.depth>> /= <<send.pc, send.depth>> )
           => /\ send'.depth = send.depth - 1
              /\ send'.cur = [resp |-> NilResp,
                              err |-> CancelledError(send.ctxErr,
                                          "request cancelled during retry")]
              /\ send'.wrappedCalls = send.wrappedCalls
              /\ send'.baseCalls = send.baseCalls
        /\ ( /\ Stage(send) = "retry" /\ send.pc = "return"
             /\ send.cur.err.type = "nil"
             /\ <<send'.pc, send'.depth>> /= <<send.pc, send.depth>> )
           => /\ send'.depth = send.depth - 1
              /\ send'.cur = send.cur
              /\ send'.wrappedCalls = send.wrappedCalls
              /\ send'.baseCalls = send.baseCalls ]_vars

\* the context was cancelled after a failed first attempt and its backoff:
\* the second attempt is not made
C32_Witness ==
    /\ send.pc = "done"
    /\ send.result.err = CancelledError(send.ctxErr, "request cancelled during retry")
    /\ send.wrappedCalls = 1
    /\ send.attempt = 1

\* C40: when the wrapped stack returns the bulkhead's capacity error to the
\* RetryDecorator, the loop ends at once: Send returns that error and the
\* wrapped stack is not called again, whatever MaxAttempts() is.
C40_CapacityRejectionEndsRetry ==
    [][ ( /\ Stage(send) = "retry" /\ send.pc = "return"
          /\ send.cur.err = CapacityError
          /\ <<send'.pc, send'.depth>> /= <<send.pc, send.depth>> )
        => /\ send'.pc = "done"
           /\ send'.result = [resp |-> NilResp, err |-> CapacityError]
           /\ send'.wrappedCalls = send.wrappedCalls
           /\ send'.baseCalls = send.baseCalls ]_vars

\* a Send with attempts left returned the capacity error after one call of
\* the wrapped stack, which the bulkhead turned away
C40_Witness ==
    /\ send.pc = "done"
    /\ chain.hasRetry /\ chain.hasBH
    /\ send.result.err = CapacityError
    /\ send.rejectedBy = "bh"
    /\ MaxAttempts(policy) >= 2
    /\ send.wrappedCalls = 1 /\ send.baseCalls = 0

----------------------------------------------------------------------------
(* Properties of models.Response (SpecResponse) *)

\* C26: once a Body() call has succeeded, every later Body(), BodyString() or
\* JSON() call uses the bytes that call returned and does not touch the
\* stream, which so is read successfully at most once.
C26_BodyReadOnce ==
    /\ (ev.op \in {"Body", "BodyString", "JSON"} /\ ev.wasRead) =>
          /\ ~ev.touched
          /\ ev.data = response.first
          /\ ev.op = "Body" => (ev.err = "nil" /\ ev.value = response.first)
          /\ ev.op = "BodyString" =>
                (ev.err = "nil" /\ ev.value = StringOf(response.first))
          /\ ev.op = "JSON" => (ev.err = "nil" <=> ValidJSON(response.first))
    /\ response.succeeded =>
          /\ response.BodyRead
          /\ response.BodyData = response.first
          /\ response.first = response.content

\* a Body() and a BodyString() have returned the two bytes read by an earlier
\* call, the stream read once
C26_Witness ==
    /\ ev.op = "BodyString" /\ ev.wasRead
    /\ response.calls = 3
    /\ response.reads = 1
    /\ ev.value = StringOf(<<"{", "}">>)

----------------------------------------------------------------------------
(* Properties of the async helpers (SpecAsync) *)

\* the requests of the results in a sequence
RequestsIn(results) == [k \in 1..Len(results) |-> results[k].Request]

\* the reader has got one result per request, in the order they were sent,
\* and has seen the channel closed
AllDelivered ==
    /\ async.main = "rangeEnded"
    /\ async.closed
    /\ Len(async.received) = async.n
    /\ {async.received[k].Request : k \in 1..Len(async.received)} = RequestsOf(async)
    /\ RequestsIn(async.received) = async.completed

\* C27: for every request list and every concurrency cap, the channel of
\* ExecuteBatch and of ExecuteConcurrent eventually delivers exactly one
\* result per request, tagged with it, in completion order, and is then
\* closed; the call does not crash and no goroutine blocks forever.
C27_EveryResultDelivered ==
    (async.fn \in {"ExecuteBatch", "ExecuteConcurrent"}) => <>AllDelivered

\* C28: FanOut always returns: the first result received without an error if
\* a request succeeds, and the last failed result when every request fails.
C28_FanOutReturns ==
    (async.fn = "FanOut") =>
        /\ <>(async.main = "returned")
        /\ [](async.main = "returned" =>
                 /\ async.returned = <<async.received[Len(async.received)]>>
                 /\ \A k \in 1..(Len(async.received) - 1) : async.received[k].failed)


\* C33: during ExecuteConcurrent at most maxConcurrency calls of client.Send
\* are in flight at the same time (none at all when maxConcurrency is not
\* positive); a goroutine is in its client.Send from the moment it has a slot
\* of the semaphore until it has sent its result.
C33_SendsInFlightBounded ==
    (async.fn = "ExecuteConcurrent") =>
        LET inFlight == {i \in RequestsOf(async) : async.pc[i] = "acquired"}
        IN  \/ Cardinality(inFlight) <= async.maxConcurrency
            \/ inFlight = {}

\* two requests and one slot: one Send in flight, the other goroutine blocked
C33_Witness ==
    /\ async.fn = "ExecuteConcurrent"
    /\ async.n = 2 /\ async.maxConcurrency = 1
    /\ \E i, j \in RequestsOf(async) :
          async.pc[i] = "acquired" /\ async.pc[j] = "started"

----------------------------------------------------------------------------
(* Properties of the RequestBuilder (SpecBuilder) *)

\* C29: once a builder call has recorded an error, every later builder call
\* of the chain leaves the accumulated configuration (every field but err) as
\* it was when the error was recorded, the error stays the first one, and
\* Build returns that first error and no request.
C29_ErrorStopsTheChain ==
    (builder.firstErr /= "nil") =>
        /\ Configuration(builder.rb) = builder.atErr
        /\ builder.rb.err = builder.firstErr
        /\ (ev.op = "Build" => ev.request = "nil" /\ ev.err = builder.firstErr)

====
